---- MODULE Spec2Model ----
(***************************************************************************)
(* Model of the Nizo extraction engine (src/src/content.ts): page context  *)
(* derivation, replay resolution (url -> dom -> dom-click -> api), the     *)
(* bounded polling loops, and the multi-strategy row extraction with its   *)
(* key-based deduplication.                                                *)
(*                                                                         *)
(* A URL of the page's origin is a record [segs, slash]: the non-empty     *)
(* path segments and whether the path ends with "/".  A JavaScript value   *)
(* that may be null is an option: <<>> for null, <<v>> for v; a nullable   *)
(* string field is the string Null or the string itself.                   *)
(***************************************************************************)
EXTENDS Integers, Sequences, FiniteSets, TLC

Null == "null"
None == <<>>
Some(v) == <<v>>

\* ---------------------------------------------------------------- bounds
\* number of host-page navigations (pushState / location change) in a run
MaxNav == 1

\* ------------------------------------------------------ program constants
DomPollAttempts == 8
ClickPollAttempts == 10
RowPollAttempts == 12

\* ------------------------------------------------------------------ URLs
Url(s, sl) == [segs |-> s, slash |-> sl]

IssueUrl == Url(<<"organizations", "acme", "issues", "123">>, TRUE)
BareIssueUrl == Url(<<"issues", "123">>, TRUE)
ReplayUrl1 == Url(<<"organizations", "acme", "replays", "r1">>, TRUE)
BareReplayUrl == Url(<<"replays", "r2">>, TRUE)
ReplayListUrl == Url(<<"organizations", "acme", "replays">>, TRUE)
OtherUrl == Url(<<"settings">>, TRUE)

\* the pages an action can be started on, and the pages the host can go to
StartUrls == {IssueUrl, BareIssueUrl, ReplayUrl1, BareReplayUrl, OtherUrl}
NavTargets == {ReplayUrl1, ReplayListUrl}

\* "/" follows segment i in the path text
HasSlashAfter(u, i) == Len(u.segs) > i \/ (Len(u.segs) = i /\ u.slash)

\* the path text contains "/<word>/"
IncludesSegment(u, word) ==
    \E i \in 1..Len(u.segs) : u.segs[i] = word /\ HasSlashAfter(u, i)

DecodeSafe(s) ==
    CASE s = "ac%6De" -> "acme"
      [] s = "r%31" -> "r1"
      [] OTHER -> s

\* ------------------------------------------------------- the page's DOM
\* The elements the host page may render, in document order.  The page's
\* DOM is the set of the elements that are currently rendered.
ElemOrder == <<1, 2, 3, 4, 5>>
ElemIds == {1, 2, 3, 4, 5}

Elem(i) ==
    CASE i = 1 -> [tag |-> "a", cta |-> TRUE, href |-> Some(ReplayUrl1), dataHref |-> None]
      [] i = 2 -> [tag |-> "button", cta |-> TRUE, href |-> None, dataHref |-> None]
      [] i = 3 -> [tag |-> "a", cta |-> FALSE, href |-> Some(BareReplayUrl), dataHref |-> None]
      [] i = 4 -> [tag |-> "a", cta |-> TRUE, href |-> Some(ReplayListUrl), dataHref |-> None]
      [] OTHER -> [tag |-> "button", cta |-> TRUE, href |-> None, dataHref |-> Some(ReplayUrl1)]

\* queryAllEverywhere over the rendered elements: document order
DomSeq(dom) == SelectSeq(ElemOrder, LAMBDA i : i \in dom)

RECURSIVE FirstSome(_)
FirstSome(opts) ==
    IF opts = <<>> THEN None
    ELSE IF Head(opts) # None THEN Head(opts)
    ELSE FirstSome(Tail(opts))

MapSeq(s, F(_)) == [k \in 1..Len(s) |-> F(s[k])]

\* ------------------------------------------------------- page context
\* One regular expression of getPageContext, applied to a pathname: the
\* captured group as an option.
MatchPattern(u, pat) ==
    LET s == u.segs
        n == Len(u.segs)
    IN CASE pat = "org:/organizations/(x)/" ->
              IF n >= 2 /\ s[1] = "organizations" /\ HasSlashAfter(u, 2)
              THEN Some(s[2]) ELSE None
         [] pat = "org:/(x)/issues/" ->
              IF n >= 2 /\ s[2] = "issues" /\ HasSlashAfter(u, 2)
              THEN Some(s[1]) ELSE None
         [] pat = "org:/(x)/replays/" ->
              IF n >= 2 /\ s[2] = "replays" /\ HasSlashAfter(u, 2)
              THEN Some(s[1]) ELSE None
         [] pat = "id:/organizations/o/issues/(x)" ->
              IF n >= 4 /\ s[1] = "organizations" /\ s[3] = "issues"
              THEN Some(s[4]) ELSE None
         [] pat = "id:/issues/(x)" ->
              IF n >= 2 /\ s[1] = "issues" THEN Some(s[2]) ELSE None
         [] pat = "id:/o/issues/(x)" ->
              IF n >= 3 /\ s[2] = "issues" THEN Some(s[3]) ELSE None
         [] pat = "id:/organizations/o/replays/(x)" ->
              IF n >= 4 /\ s[1] = "organizations" /\ s[3] = "replays"
              THEN Some(s[4]) ELSE None
         [] pat = "id:/replays/(x)" ->
              IF n >= 2 /\ s[1] = "replays" THEN Some(s[2]) ELSE None
         [] pat = "id:/o/replays/(x)" ->
              IF n >= 3 /\ s[2] = "replays" THEN Some(s[3]) ELSE None
         [] pat = "any:/issues/(x)" ->
              IF \E i \in 1..(n - 1) : s[i] = "issues"
              THEN Some(s[(CHOOSE i \in 1..(n - 1) :
                            s[i] = "issues" /\ \A j \in 1..(i - 1) : s[j] # "issues") + 1])
              ELSE None
         [] pat = "any:/replays/(x)" ->
              IF \E i \in 1..(n - 1) : s[i] = "replays"
              THEN Some(s[(CHOOSE i \in 1..(n - 1) :
                            s[i] = "replays" /\ \A j \in 1..(i - 1) : s[j] # "replays") + 1])
              ELSE None
         [] OTHER -> None

\* a match that is returned as captured, without decoding
FirstPathMatch_Raw(u, patterns) ==
    LET m == FirstSome(MapSeq(patterns, LAMBDA pat : MatchPattern(u, pat)))
    IN IF m = None THEN Null ELSE m[1]

\* the patterns in list order; the first that matches decides, decoded
FirstPathMatch(u, patterns) ==
    LET m == FirstSome(MapSeq(patterns, LAMBDA pat : MatchPattern(u, pat)))
    IN IF m = None THEN Null ELSE DecodeSafe(m[1])

\* the first rendered anchor whose href holds "/organizations/<org>/"
InferOrganizationSlugFromDom(dom) ==
    LET links == SelectSeq(DomSeq(dom), LAMBDA i :
                    /\ Elem(i).tag = "a"
                    /\ Elem(i).href # None
                    /\ IncludesSegment(Elem(i).href[1], "organizations"))
        m == FirstSome(MapSeq(links, LAMBDA i :
                    MatchPattern(Elem(i).href[1], "org:/organizations/(x)/")))
    IN IF m = None THEN Null ELSE DecodeSafe(m[1])

Ctx(org, issue, replay, type) ==
    [organizationSlug |-> org, issueId |-> issue, replayId |-> replay, pageType |-> type]

\* a context that reports every id the path holds
GetPageContext_BothIds(u, dom) ==
    LET organizationFromPath == FirstPathMatch(u,
            <<"org:/organizations/(x)/", "org:/(x)/issues/", "org:/(x)/replays/">>)
        issueId == FirstPathMatch(u,
            <<"id:/organizations/o/issues/(x)", "id:/issues/(x)", "id:/o/issues/(x)">>)
        replayId == FirstPathMatch(u,
            <<"id:/organizations/o/replays/(x)", "id:/replays/(x)", "id:/o/replays/(x)">>)
    IN Ctx(organizationFromPath, issueId, replayId,
           IF issueId # Null THEN "issue" ELSE IF replayId # Null THEN "replay" ELSE "other")

GetPageContext(u, dom) ==
    LET organizationFromPath == FirstPathMatch(u,
            <<"org:/organizations/(x)/", "org:/(x)/issues/", "org:/(x)/replays/">>)
        organizationSlug == IF organizationFromPath # Null THEN organizationFromPath
                            ELSE InferOrganizationSlugFromDom(dom)
        issueId == FirstPathMatch(u,
            <<"id:/organizations/o/issues/(x)", "id:/issues/(x)", "id:/o/issues/(x)">>)
        replayId == FirstPathMatch(u,
            <<"id:/organizations/o/replays/(x)", "id:/replays/(x)", "id:/o/replays/(x)">>)
        issueMatch == MatchPattern(u, "any:/issues/(x)")
        replayMatch == MatchPattern(u, "any:/replays/(x)")
    IN IF issueId # Null THEN Ctx(organizationSlug, issueId, Null, "issue")
       ELSE IF replayId # Null THEN Ctx(organizationSlug, Null, replayId, "replay")
       ELSE IF issueMatch # None
            THEN Ctx(organizationSlug, DecodeSafe(issueMatch[1]), Null, "issue")
       ELSE IF replayMatch # None
            THEN Ctx(organizationSlug, Null, DecodeSafe(replayMatch[1]), "replay")
       ELSE Ctx(Null, Null, Null, "other")

\* ---------------------------------------------------- replay from a URL
Resolution(id, url, src) == [replayId |-> id, replayUrl |-> url, source |-> src]

\* the three anchored replay-path patterns, with optional trailing "/"
ParseReplayFromUrl(u) ==
    LET s == u.segs
        n == Len(u.segs)
    IN IF n = 4 /\ s[1] = "organizations" /\ s[3] = "replays"
       THEN Some([replayId |-> DecodeSafe(s[4]), replayUrl |-> u])
       ELSE IF n = 2 /\ s[1] = "replays"
       THEN Some([replayId |-> DecodeSafe(s[2]), replayUrl |-> u])
       ELSE IF n = 3 /\ s[2] = "replays"
       THEN Some([replayId |-> DecodeSafe(s[3]), replayUrl |-> u])
       ELSE None

\* elements matched by the clickable selector whose text holds a
\* call-to-action phrase, in document order
GetReplayCtaElements(dom) == SelectSeq(DomSeq(dom), LAMBDA i : Elem(i).cta)

\* href, then data-href: the first attribute value holding "/replays/"
ReadReplayUrlFromElement(e) ==
    IF e.href # None /\ IncludesSegment(e.href[1], "replays") THEN e.href
    ELSE IF e.dataHref # None /\ IncludesSegment(e.dataHref[1], "replays") THEN e.dataHref
    ELSE None

\* Call-to-action anchors first, then every anchor whose href holds
\* "/replays/"; then the attributes of the call-to-action elements.  (The
\* closest-anchor lookup of a call-to-action element finds an anchor whose
\* own text holds the phrase, which the first pass has already parsed.)
ExtractReplayFromDom(dom) ==
    LET allAnchors == SelectSeq(DomSeq(dom), LAMBDA i :
                        Elem(i).tag = "a" /\ Elem(i).href # None)
        prioritizedAnchors ==
            SelectSeq(allAnchors, LAMBDA i : Elem(i).cta)
            \o SelectSeq(allAnchors, LAMBDA i : IncludesSegment(Elem(i).href[1], "replays"))
        fromAnchors == FirstSome(MapSeq(prioritizedAnchors, LAMBDA i :
                        ParseReplayFromUrl(Elem(i).href[1])))
        fromCta == FirstSome(MapSeq(GetReplayCtaElements(dom), LAMBDA i :
                        LET ownUrl == ReadReplayUrlFromElement(Elem(i))
                        IN IF ownUrl = None THEN None ELSE ParseReplayFromUrl(ownUrl[1])))
        parsed == IF fromAnchors # None THEN fromAnchors ELSE fromCta
    IN IF parsed = None THEN None
       ELSE Some(Resolution(parsed[1].replayId, parsed[1].replayUrl, "dom"))

CanonicalReplayUrl(org, id) == Url(<<"organizations", org, "replays", id>>, TRUE)

\* ------------------------------------------------- rows and their keys
Str(v) == IF v = Null THEN "" ELSE v
NumStr(opt) == IF opt = None THEN "" ELSE ToString(opt[1])

ErrorRow(eventId, title, issue, timestamp) ==
    [eventId |-> eventId, title |-> title, issue |-> issue, timestamp |-> timestamp]

NetworkRow(method, status, host, requestUrl, duration, timestamp, detailsUrl, title) ==
    [method |-> method, status |-> status, host |-> host, requestUrl |-> requestUrl,
     duration |-> duration, timestamp |-> timestamp, detailsUrl |-> detailsUrl,
     title |-> title]

\* [String(row.x || ""), ...].join("|")
ErrorKey(r) ==
    Str(r.eventId) \o "|" \o Str(r.title) \o "|" \o Str(r.issue) \o "|" \o Str(r.timestamp)

NetworkKey(r) ==
    Str(r.method) \o "|" \o NumStr(r.status) \o "|" \o Str(r.host) \o "|"
        \o Str(r.requestUrl) \o "|" \o Str(r.timestamp)

RowKey(r, kind) == IF kind = "error" THEN ErrorKey(r) ELSE NetworkKey(r)

\* a set() that never finds the key: every row is appended
MapSet_AlwaysAppend(m, k, v) == Append(m, [key |-> k, value |-> v])

\* Map.prototype.set: a new key is appended; a key already present keeps
\* its position and takes the new value
MapSet(m, k, v) ==
    IF \E i \in 1..Len(m) : m[i].key = k
    THEN [i \in 1..Len(m) |-> IF m[i].key = k THEN [key |-> k, value |-> v] ELSE m[i]]
    ELSE Append(m, [key |-> k, value |-> v])

RECURSIVE FillMap(_, _, _)
FillMap(rows, kind, n) ==
    IF n = 0 THEN <<>>
    ELSE MapSet(FillMap(rows, kind, n - 1), RowKey(rows[n], kind), rows[n])

\* const unique = new Map(); for (row of rows) unique.set(key, row);
\* Array.from(unique.values())
UniqueByKey(rows, kind) ==
    LET m == FillMap(rows, kind, Len(rows))
    IN [i \in 1..Len(m) |-> m[i].value]

\* ------------------------------------------- the replay page's row area
\* What the host page may render in the errors view, in document order:
\* native: matched by the table/grid row selectors; anchor: holds a link
\* whose text is an event id; header: the column-name row; dom: the fields
\* parseReplayErrorRow reads from the element; line: the fields the element
\* contributes to the flattened page text.
RowOrder == <<1, 2, 3, 4>>
RowIds == {1, 2, 3, 4}

ErrorElem(i) ==
    CASE i = 1 -> [native |-> TRUE, anchor |-> FALSE, header |-> TRUE,
                   dom |-> ErrorRow(Null, "Event ID Title Issue Timestamp", Null, Null),
                   line |-> ErrorRow(Null, "Event ID Title Issue Timestamp", Null, Null)]
      [] i = 2 -> [native |-> TRUE, anchor |-> TRUE, header |-> FALSE,
                   dom |-> ErrorRow("abcd1234", "TypeError", "WEB-12", "10:01"),
                   line |-> ErrorRow("abcd1234", "TypeError", "WEB-12", "10:01")]
      [] i = 3 -> [native |-> FALSE, anchor |-> TRUE, header |-> FALSE,
                   dom |-> ErrorRow("deadbeef", "Timeout", "WEB-7A", "10:05"),
                   line |-> ErrorRow("deadbeef", "Timeout in checkout", "WEB-7A", "10:05")]
      [] OTHER -> [native |-> TRUE, anchor |-> TRUE, header |-> FALSE,
                   dom |-> ErrorRow("abcd1234", "TypeError", "WEB-12", "10:01"),
                   line |-> ErrorRow("abcd1234", "TypeError", "WEB-12", "10:01")]

RowSeq(rd) == SelectSeq(RowOrder, LAMBDA i : i \in rd)

\* the row filter of getReplayErrorRows: not the header row, and an event
\* id or an issue key in the row text
GetReplayErrorRows(rd) ==
    SelectSeq(RowSeq(rd), LAMBDA i :
        /\ ErrorElem(i).native
        /\ ~ErrorElem(i).header
        /\ (ErrorElem(i).dom.eventId # Null \/ ErrorElem(i).dom.issue # Null))

\* the containers of the event-id anchors, each container once
GetReplayErrorRowsFromAnchors(rd) ==
    SelectSeq(RowSeq(rd), LAMBDA i : ErrorElem(i).anchor)

ParseReplayErrorRow(e) ==
    IF e.dom.eventId = Null /\ e.dom.title = Null /\ e.dom.issue = Null
    THEN None ELSE Some(e.dom)

\* map(parse).filter(Boolean)
ParseErrorRows(ids) ==
    LET kept == SelectSeq(ids, LAMBDA i : ParseReplayErrorRow(ErrorElem(i)) # None)
    IN MapSeq(kept, LAMBDA i : ParseReplayErrorRow(ErrorElem(i))[1])

\* free-text segmentation: nothing without the column header in the page
\* text; one block per line that starts with an event id; deduplicated
ParseReplayEventsFromPageText(rd) ==
    IF ~\E i \in rd : ErrorElem(i).header THEN <<>>
    ELSE LET blocks == SelectSeq(RowSeq(rd), LAMBDA i :
                          ~ErrorElem(i).header /\ ErrorElem(i).line.eventId # Null)
         IN UniqueByKey(MapSeq(blocks, LAMBDA i : ErrorElem(i).line), "error")

\* What the host page may render in the network view.  multiline: the
\* request is spread over several text lines, so that no single line holds
\* a method together with a status or a host.
NetworkElem(i) ==
    CASE i = 1 -> [native |-> TRUE, header |-> TRUE, multiline |-> FALSE,
                   dom |-> NetworkRow(Null, None, Null, Null, Null, Null, Null,
                                      "Method Status Host Duration"),
                   line |-> NetworkRow(Null, None, Null, Null, Null, Null, Null,
                                       "Method Status Host Duration")]
      [] i = 2 -> [native |-> TRUE, header |-> FALSE, multiline |-> FALSE,
                   dom |-> NetworkRow("POST", Some(503), "api.example.com",
                                      "https://api.example.com/v1/charge", "842ms", Null,
                                      "/details/1",
                                      "POST 503 https://api.example.com/v1/charge 842ms"),
                   line |-> NetworkRow("POST", Some(503), "api.example.com",
                                       "https://api.example.com/v1/charge", "842ms", Null,
                                       Null,
                                       "POST 503 https://api.example.com/v1/charge 842ms")]
      [] i = 3 -> [native |-> FALSE, header |-> FALSE, multiline |-> TRUE,
                   dom |-> NetworkRow("GET", Some(200), "cdn.example.com",
                                      "https://cdn.example.com/app.js", "12ms", Null,
                                      Null, "GET https://cdn.example.com/app.js"),
                   line |-> NetworkRow("GET", Some(200), "cdn.example.com",
                                       "https://cdn.example.com/app.js", "12ms", Null,
                                       Null, "GET https://cdn.example.com/app.js")]
      [] OTHER -> [native |-> TRUE, header |-> FALSE, multiline |-> FALSE,
                   dom |-> NetworkRow("POST", Some(503), "api.example.com",
                                      "https://api.example.com/v1/charge", "97ms", Null,
                                      "/details/2",
                                      "POST 503 https://api.example.com/v1/charge 97ms"),
                   line |-> NetworkRow("POST", Some(503), "api.example.com",
                                       "https://api.example.com/v1/charge", "97ms", Null,
                                       Null,
                                       "POST 503 https://api.example.com/v1/charge 97ms")]

\* the row filter of getReplayNetworkRows: not the header row, and a
\* method, a status or a host in the row text
GetReplayNetworkRows(rd) ==
    SelectSeq(RowSeq(rd), LAMBDA i :
        /\ NetworkElem(i).native
        /\ ~NetworkElem(i).header
        /\ \/ NetworkElem(i).dom.method # Null
           \/ NetworkElem(i).dom.status # None
           \/ NetworkElem(i).dom.host # Null)

ParseReplayNetworkRow(e) ==
    IF /\ e.dom.method = Null
       /\ e.dom.status = None
       /\ e.dom.host = Null
       /\ e.dom.requestUrl = Null
    THEN None ELSE Some(e.dom)

ParseNetworkRows(ids) ==
    LET kept == SelectSeq(ids, LAMBDA i : ParseReplayNetworkRow(NetworkElem(i)) # None)
    IN MapSeq(kept, LAMBDA i : ParseReplayNetworkRow(NetworkElem(i))[1])

\* line pass: a method and (a status or a host) on one line; block pass,
\* only when the line pass found nothing: method, status, URL, duration
\* over several lines; deduplicated
ParseReplayNetworkEventsFromPageText(rd) ==
    LET fromLines == SelectSeq(RowSeq(rd), LAMBDA i :
                        /\ ~NetworkElem(i).multiline
                        /\ NetworkElem(i).line.method # Null
                        /\ \/ NetworkElem(i).line.status # None
                           \/ NetworkElem(i).line.host # Null)
        fromBlocks == SelectSeq(RowSeq(rd), LAMBDA i : NetworkElem(i).multiline)
        parsed == IF fromLines # <<>> THEN fromLines ELSE fromBlocks
    IN UniqueByKey(MapSeq(parsed, LAMBDA i : NetworkElem(i).line), "network")

\* an attempt that stops at the first strategy that found rows
ErrorAttempt_ShortCircuit(rd) ==
    IF ParseErrorRows(GetReplayErrorRows(rd)) # <<>>
    THEN [ran |-> <<"rows">>, parsed |-> ParseErrorRows(GetReplayErrorRows(rd))]
    ELSE [ran |-> <<"rows", "anchors", "text">>,
          parsed |-> ParseErrorRows(GetReplayErrorRowsFromAnchors(rd))
                     \o ParseReplayEventsFromPageText(rd)]

\* One poll attempt of getReplayErrorEventsFromDomWithRetry: the strategies
\* it runs, in order, and the candidate list it merges
ErrorAttempt(rd) ==
    [ran |-> <<"rows", "anchors", "text">>,
     parsed |-> ParseErrorRows(GetReplayErrorRows(rd))
                \o ParseErrorRows(GetReplayErrorRowsFromAnchors(rd))
                \o ParseReplayEventsFromPageText(rd)]

\* an attempt that reads the page text only when the rows gave nothing
NetworkAttempt_TextAsFallback(rd) ==
    IF ParseNetworkRows(GetReplayNetworkRows(rd)) # <<>>
    THEN [ran |-> <<"rows">>, parsed |-> ParseNetworkRows(GetReplayNetworkRows(rd))]
    ELSE [ran |-> <<"rows", "text">>, parsed |-> ParseReplayNetworkEventsFromPageText(rd)]

\* One poll attempt of getReplayNetworkEventsFromDomWithRetry
NetworkAttempt(rd) ==
    [ran |-> <<"rows", "text">>,
     parsed |-> ParseNetworkRows(GetReplayNetworkRows(rd))
                \o ParseReplayNetworkEventsFromPageText(rd)]

RowAttempt(kind, rd) == IF kind = "error" THEN ErrorAttempt(rd) ELSE NetworkAttempt(rd)

\* rows collected from the recording segments of the remote API
ApiNetworkRow(i) ==
    CASE i = 1 -> NetworkRow("GET", Some(500), "api.example.com",
                             "https://api.example.com/v1/user", "30ms", "1700000000",
                             Null, "GET https://api.example.com/v1/user")
      [] i = 2 -> NetworkRow("GET", Some(500), "api.example.com",
                             "https://api.example.com/v1/user", "45ms", "1700000000",
                             Null, "retry GET https://api.example.com/v1/user")
      [] OTHER -> NetworkRow("PUT", Some(204), "api.example.com",
                             "https://api.example.com/v1/cart/cancel", "8ms", "1700000001",
                             Null, "PUT https://api.example.com/v1/cart/cancel")

\* the modelled texts that hold one of the words error, failed, timeout,
\* abort, blocked, refused, cancel
ErrorWordTexts ==
    {"https://api.example.com/v1/cart/cancel", "PUT https://api.example.com/v1/cart/cancel"}

\* a classification by the words alone
IsNetworkErrorEntry_WordsOnly(entry) ==
    \/ entry.title \in ErrorWordTexts
    \/ entry.requestUrl \in ErrorWordTexts

\* a status of 400 or more, or one of the words in the title or the URL
IsNetworkErrorEntry(entry) ==
    \/ entry.status # None /\ entry.status[1] >= 400
    \/ entry.title \in ErrorWordTexts
    \/ entry.requestUrl \in ErrorWordTexts

\* the number in the text of the network tab, null without a tab or a number
TabCounts == {None, Some(0), Some(3)}

Max(a, b) == IF a >= b THEN a ELSE b

\* the data handleReplayNetworkErrors returns on a replay page
NetworkData(replay, fromDom, fromApi, tabCount) ==
    LET networkRequests == IF fromDom # <<>> THEN fromDom ELSE fromApi
        networkErrors == SelectSeq(networkRequests, IsNetworkErrorEntry)
    IN [replayId |-> replay.replayId, replayUrl |-> replay.replayUrl,
        source |-> replay.source, shouldOpenReplay |-> FALSE,
        totalNetworkRequests |->
            Max(IF tabCount = None THEN 0 ELSE tabCount[1], Len(networkRequests)),
        totalNetworkErrors |-> Len(networkErrors),
        networkErrors |-> networkErrors,
        networkDataSource |-> IF fromDom # <<>> THEN "dom" ELSE "api-segments"]

\* the data handleReplayErrors returns: the replay, the rows and their
\* origin (the counts and the link lists derived from them are left out)
ErrorsData(replay, fromDom, fromApi, type) ==
    [replayId |-> replay.replayId, replayUrl |-> replay.replayUrl,
     source |-> replay.source, shouldOpenReplay |-> type # "replay",
     replayEvents |-> IF fromDom # <<>> THEN fromDom ELSE fromApi,
     replayDataSource |-> IF fromDom # <<>> THEN "dom" ELSE "api"]

\* ------------------------------------------------------------- state
VARIABLES
    hist,        \* the tab's session history: a sequence of URLs
    histIdx,     \* the current entry; window.location is hist[histIdx]
    navs,        \* navigations the host page has made
    dom,         \* the rendered link and button elements of the page
    tab,         \* the view's tab control: "absent", "inactive" or "active"
    rowsDom,     \* the rendered elements of the row area
    stackDom,    \* the page text yields a stack trace
    msgType,     \* the type of the message sent to the tab
    request,     \* the action the message carries, Null when it carries none
    action,      \* the action being run, "none" before the dispatch
    pc,          \* the engine's position
    ctx,         \* the PageContext of the running action
    response,    \* the envelopes handed to sendResponse, in order
    calls,       \* the remote calls sent, in order
    beforeUrl,   \* extractReplayByClickingCta: the URL captured before the click
    resolution,  \* the ReplayResolution resolveReplay returned, as an option
    domPolls,    \* extractReplayFromDom calls of the dom stage
    clickPolls,  \* loop iterations of the dom-click stage
    clicks,      \* call-to-action clicks
    backs,       \* history.back() calls
    details,     \* the replay details: "null", "noProject" or "withProject"
    tabClicks,   \* clicks on the tab control
    rowPolls,    \* attempts of the row polling loop
    lastRan,     \* the strategies the last row attempt ran, in order
    lastParsed,  \* the candidate rows the last extraction merged
    lastRowsDom, \* the row area as the last row attempt read it
    rows,        \* the rows the row polling loop returned, as an option
    collected,   \* the rows collected from the recording segments
    fromApi,     \* the rows the remote fallback returned
    empties,     \* per polling loop: the attempts that found nothing
    served,      \* the messages the listener has dispatched
    lastCtx,     \* the PageContext of the action dispatched before the last
    replies,     \* the outcomes of the remote calls that were answered, in order
    popupAction, \* popup: the action of the running runAction, "none" before
    popupPc,     \* popup: the position of runAction
    loading,     \* popup: the action buttons are disabled
    status,      \* popup: the text of the status line
    shownError,  \* popup: the error shown in the details panel, or Null
    transport,   \* popup: the sends and injections of the running action
    answers,     \* popup: the outcomes of these sends and injections
    popupRuns,   \* popup: the runAction calls so far
    openedTabs,  \* popup: the tabs the running action opened
    tree,        \* traversal: the frame and shadow-host elements of the page
    walkPc,      \* traversal: the position of queryAllEverywhere
    docStack,    \* getAccessibleDocuments: the pending walk(doc) calls
    seenDocs,    \* getAccessibleDocuments: seen
    docs,        \* getAccessibleDocuments: docs
    docIdx,      \* queryAllEverywhere: the index of the document being queried
    rootStack,   \* queryAllDeepInRoot: the pending walk(root) calls
    visitedRoots, \* queryAllDeepInRoot: visitedRoots
    results,     \* queryAllDeepInRoot: results
    seenElems,   \* queryAllEverywhere: seen
    elements,    \* queryAllEverywhere: elements
    queried,     \* the roots the selector was run in, in order
    section,     \* normalization: the lines of the stack-trace section
    rawTrace,    \* normalization: toRawStacktraceFromSection's result, or None
    apiFrames,   \* normalization: the frames of an exception of the event
    apiTrace,    \* normalization: normalizeFrames' result, or None
    listeners,   \* tab: the engine listeners registered in the page
    started      \* tab: the engine runs the last delivered request started

pageVars == <<hist, histIdx, navs, dom, tab, rowsDom, stackDom>>
ctlVars == <<msgType, request, action, pc, ctx, response, calls>>
sessionVars == <<served, lastCtx>>
walkVars == <<tree, walkPc, docStack, seenDocs, docs, docIdx, rootStack, visitedRoots,
              results, seenElems, elements, queried>>
traceVars == <<section, rawTrace, apiFrames, apiTrace>>
popupVars == <<popupAction, popupPc, loading, status, shownError, transport, answers,
               popupRuns, openedTabs>>
tabVars == <<listeners, started>>
resolveVars == <<beforeUrl, resolution, domPolls, clickPolls, clicks, backs>>
rowVars == <<details, tabClicks, rowPolls, lastRan, lastParsed, lastRowsDom, rows,
             collected, fromApi>>

vars == <<pageVars, ctlVars, resolveVars, rowVars, empties, sessionVars, replies,
          popupVars, tabVars, walkVars, traceVars>>

Href == hist[histIdx]

NoCtx == Ctx(Null, Null, Null, "none")

AcceptsMessage_AnyType(type, act) == act # Null

\* the listener's guard: type NIZO_ACTION and an action
AcceptsMessage(type, act) == type = "NIZO_ACTION" /\ act # Null

\* the cases of runAction's switch
ReplayActions == {"openReplay", "getReplayErrors", "getReplayNetworkErrors"}
IssueActions == {"getRawStacktracePrompt", "getUserDetails"}

EngineInit ==
    /\ histIdx = Len(hist)
    /\ navs = 0
    /\ rowsDom = {}
    /\ action = "none"
    /\ pc = "idle"
    /\ ctx = NoCtx
    /\ response = <<>>
    /\ calls = <<>>
    /\ beforeUrl = None
    /\ resolution = None
    /\ domPolls = 0
    /\ clickPolls = 0
    /\ clicks = 0
    /\ backs = 0
    /\ details = "null"
    /\ tabClicks = 0
    /\ rowPolls = 0
    /\ lastRan = <<>>
    /\ lastParsed = <<>>
    /\ lastRowsDom = {}
    /\ rows = None
    /\ collected = <<>>
    /\ fromApi = <<>>
    /\ empties = [dom |-> 0, click |-> 0, rows |-> 0]
    /\ served = 0
    /\ lastCtx = NoCtx
    /\ replies = <<>>

\* the popup as it is opened: no action has run, the buttons are enabled
PopupInit ==
    /\ popupAction = "none"
    /\ popupPc = "ready"
    /\ loading = FALSE
    /\ status = ""
    /\ shownError = Null
    /\ transport = <<>>
    /\ answers = <<>>
    /\ popupRuns = 0
    /\ openedTabs = 0
    /\ started = 0

\* nothing has been normalized
TraceInit ==
    /\ rawTrace = None
    /\ apiTrace = None

\* no traversal has started
WalkInit ==
    /\ walkPc = "docs"
    /\ docStack = <<"top">>
    /\ seenDocs = {}
    /\ docs = <<>>
    /\ docIdx = 0
    /\ rootStack = <<>>
    /\ visitedRoots = {}
    /\ results = <<>>
    /\ seenElems = {}
    /\ elements = <<>>
    /\ queried = <<>>

\* The message in flight and the page it meets.  An openReplay request
\* meets any page; a network request meets any page as well (off a replay
\* page it ends right after resolveReplay); the row extraction itself is
\* followed on replay pages, where the tab control exists and the row area
\* renders while the action runs; the two issue actions meet any page, with
\* or without a stack trace in its text; and the listener also receives
\* messages of another type, without an action, or with an unknown action.
Init ==
    /\ \/ /\ msgType = "NIZO_ACTION"
          /\ request = "openReplay"
          /\ hist \in {<<u>> : u \in StartUrls} \cup {<<OtherUrl, u>> : u \in StartUrls}
          /\ dom \in SUBSET ElemIds
          /\ tab = "absent"
          /\ stackDom = FALSE
       \/ /\ msgType = "NIZO_ACTION"
          /\ request = "getReplayNetworkErrors"
          /\ hist \in {<<u>> : u \in StartUrls \ {ReplayUrl1, BareReplayUrl}}
          /\ dom \in SUBSET ElemIds
          /\ tab = "absent"
          /\ stackDom = FALSE
       \/ /\ msgType = "NIZO_ACTION"
          /\ request \in {"getReplayErrors", "getReplayNetworkErrors"}
          /\ hist \in {<<ReplayUrl1>>, <<BareReplayUrl>>}
          /\ dom \in {{}, {1}}
          /\ tab \in {"absent", "inactive", "active"}
          /\ stackDom = FALSE
       \/ /\ msgType = "NIZO_ACTION"
          /\ request \in IssueActions
          /\ hist \in {<<u>> : u \in StartUrls}
          /\ dom \in {{}, {1}}
          /\ tab = "absent"
          /\ stackDom \in BOOLEAN
       \/ /\ msgType \in {"NIZO_ACTION", "OTHER"}
          /\ request \in {"openReplay", "exportIssue", Null}
          /\ hist = <<ReplayUrl1>>
          /\ dom = {}
          /\ tab = "absent"
          /\ stackDom = FALSE
    /\ EngineInit
    /\ PopupInit /\ listeners = 1
    /\ WalkInit /\ tree = {}
    /\ TraceInit /\ section = <<>> /\ apiFrames = <<>>

\* the engine is suspended in a timer or a remote call of resolveReplay
Suspended == pc \in {"domWait", "clickStage", "clickWait", "apiWait"}

\* the engine is suspended in a timer or a remote call before a row attempt
RowSuspended == pc \in {"detailsWait", "tabWait", "rowWait"}

\* sendResponse(envelope)
Send(envelope) == Append(response, envelope)

Ok(data) == [ok |-> TRUE, data |-> data, error |-> Null]
Failure(message) == [ok |-> FALSE, data |-> None, error |-> message]

RowKind(a) == IF a = "getReplayErrors" THEN "error" ELSE "network"

\* --------------------------------------------------- the host page
\* the host page renders or removes one link or button
HostMutateDom ==
    /\ Suspended
    /\ \E i \in ElemIds : dom' = IF i \in dom THEN dom \ {i} ELSE dom \cup {i}
    /\ UNCHANGED <<hist, histIdx, navs, tab, rowsDom, stackDom, ctlVars, resolveVars,
                   rowVars, empties, sessionVars, replies, popupVars, tabVars, walkVars, traceVars>>

\* the host page navigates: pushState (a new history entry) or replace
HostNavigate ==
    /\ Suspended
    /\ navs < MaxNav
    /\ \E target \in NavTargets \ {Href}, push \in BOOLEAN :
         IF push
         THEN /\ hist' = Append(SubSeq(hist, 1, histIdx), target)
              /\ histIdx' = histIdx + 1
         ELSE /\ hist' = [hist EXCEPT ![histIdx] = target]
              /\ histIdx' = histIdx
    /\ navs' = navs + 1
    /\ UNCHANGED <<dom, tab, rowsDom, stackDom, ctlVars, resolveVars, rowVars, empties,
                   sessionVars, replies, popupVars, tabVars, walkVars, traceVars>>

\* the host page renders or removes one element of the row area
HostMutateRows ==
    /\ RowSuspended
    /\ \E i \in RowIds :
         rowsDom' = IF i \in rowsDom THEN rowsDom \ {i} ELSE rowsDom \cup {i}
    /\ UNCHANGED <<hist, histIdx, navs, dom, tab, stackDom, ctlVars, resolveVars,
                   rowVars, empties, sessionVars, replies, popupVars, tabVars, walkVars, traceVars>>

\* --------------------------------------------------------- the engine
\* a runAction that keeps the context of the first action it ran
ContextFor_Cached(last, href, d) ==
    IF last.pageType # "none" THEN last ELSE GetPageContext(href, d)

\* runAction: const ctx = getPageContext(); nothing of an earlier run is read
ContextFor(last, href, d) == GetPageContext(href, d)

\* onMessage listener -> runAction: a message of another type or without an
\* action is left alone; the context is derived at the dispatch; an action
\* runAction does not know fails at once
Dispatch ==
    /\ pc = "idle"
    /\ IF ~AcceptsMessage(msgType, request)
       THEN /\ pc' = "ignored"
            /\ UNCHANGED <<action, ctx, response, served, lastCtx>>
       ELSE /\ action' = request
            /\ ctx' = ContextFor(ctx, Href, dom)
            /\ lastCtx' = ctx
            /\ served' = served + 1
            /\ IF request \in ReplayActions
               THEN pc' = "resolve" /\ UNCHANGED response
               ELSE IF request \in IssueActions
               THEN pc' = "issue" /\ UNCHANGED response
               ELSE pc' = "done" /\ response' = Send(Failure("Unsupported action."))
    /\ UNCHANGED <<pageVars, msgType, request, calls, resolveVars, rowVars, empties,
                   replies, popupVars, tabVars, walkVars, traceVars>>

\* a stack-trace action that asks the API before it reads the page
IssuePrecondition_ApiFirst(act, c, hasStack) ==
    IF c.pageType # "issue" THEN "Open a Sentry issue page for this action."
    ELSE IF c.organizationSlug = Null
    THEN IF act = "getRawStacktracePrompt" /\ hasStack THEN "dom"
         ELSE "Could not detect Sentry organization from this page URL."
    ELSE IF c.issueId = Null THEN "This action requires an issue page."
    ELSE "ok"

IssuePrecondition_NoOrgCheck(act, c, hasStack) ==
    IF c.pageType # "issue" THEN "Open a Sentry issue page for this action."
    ELSE IF act = "getRawStacktracePrompt" /\ hasStack THEN "dom"
    ELSE IF c.issueId = Null THEN "This action requires an issue page."
    ELSE "ok"

\* handleUserDetails, handleRawStacktracePrompt and getLatestIssueEvent up
\* to the latest-event query: the message of the error raised, "dom" when
\* the page text answers, "ok" when the query goes out
IssuePrecondition(act, c, hasStack) ==
    IF c.pageType # "issue" THEN "Open a Sentry issue page for this action."
    ELSE IF act = "getRawStacktracePrompt" /\ hasStack THEN "dom"
    ELSE IF c.organizationSlug = Null
    THEN "Could not detect Sentry organization from this page URL."
    ELSE IF c.issueId = Null THEN "This action requires an issue page."
    ELSE "ok"

\* the two issue handlers, from their first statement to the first await
\* (of the returned data, the model keeps the origin of the stack trace)
IssueHandlerStart ==
    /\ pc = "issue"
    /\ LET pre == IssuePrecondition(action, ctx, stackDom)
       IN CASE pre = "ok" ->
                 /\ calls' = Append(calls, "latestEvent")
                 /\ pc' = "eventWait"
                 /\ UNCHANGED response
            [] pre = "dom" ->
                 /\ response' = Send(Ok([source |-> "dom"]))
                 /\ pc' = "done"
                 /\ UNCHANGED calls
            [] OTHER ->
                 /\ response' = Send(Failure(pre))
                 /\ pc' = "done"
                 /\ UNCHANGED calls
    /\ UNCHANGED <<pageVars, msgType, request, action, ctx, resolveVars, rowVars,
                   empties, sessionVars, replies, popupVars, tabVars, walkVars, traceVars>>

\* the latest-event query answers: a failure, an event without exception
\* values, or an event with them
LatestEventRespond ==
    /\ pc = "eventWait"
    /\ \E outcome \in {"rejected", "noException", "withException"} :
         /\ replies' = Append(replies, outcome)
         /\ response' = Send(
               IF outcome = "rejected" THEN Failure("Sentry API error")
               ELSE IF action = "getUserDetails" THEN Ok([issueId |-> ctx.issueId])
               ELSE IF outcome = "noException"
               THEN Failure("No exception stacktrace found in the latest event.")
               ELSE Ok([source |-> "api"]))
    /\ pc' = "done"
    /\ UNCHANGED <<pageVars, msgType, request, action, ctx, calls, resolveVars,
                   rowVars, empties, sessionVars, popupVars, tabVars, walkVars, traceVars>>

\* a url stage that never answers
UrlStage_Skipped(c, href) == None

\* a url stage that builds the organization URL without looking at the slug
UrlStage_AlwaysCanonical(c, href) ==
    IF c.replayId # Null
    THEN Some(Resolution(c.replayId,
                         CanonicalReplayUrl(c.organizationSlug, c.replayId), "url"))
    ELSE None

\* resolveReplay, stage url: the result when the context carries a replay id
UrlStage(c, href) ==
    IF c.replayId # Null
    THEN Some(Resolution(c.replayId,
                         IF c.organizationSlug # Null
                         THEN CanonicalReplayUrl(c.organizationSlug, c.replayId)
                         ELSE href,
                         "url"))
    ELSE None

ResolveUrl ==
    /\ pc = "resolve"
    /\ UrlStage(ctx, Href) # None
    /\ resolution' = UrlStage(ctx, Href)
    /\ pc' = "resolved"
    /\ UNCHANGED <<pageVars, msgType, request, action, ctx, response, calls, beforeUrl,
                   domPolls, clickPolls, clicks, backs, rowVars, empties, sessionVars, replies, popupVars, tabVars, walkVars, traceVars>>

\* a dom stage that polls until a link appears
AfterDomAttempt_NeverGivesUp(replay, attemptsDone) ==
    IF replay # None THEN "resolved" ELSE "domWait"

\* a dom stage that gives up after its first empty attempt
AfterDomAttempt_GiveUpEarly(replay, attemptsDone) ==
    IF replay # None THEN "resolved" ELSE "clickStage"

\* extractReplayFromDomWithRetry: where the loop goes after one attempt
AfterDomAttempt(replay, attemptsDone) ==
    IF replay # None THEN "resolved"
    ELSE IF attemptsDone < DomPollAttempts THEN "domWait"
    ELSE "clickStage"

\* a loop that keeps what its first attempt observed: after an empty first
\* attempt every later attempt is empty as well
DomAttempt_Memoized(d, attemptsDone) ==
    IF attemptsDone = 0 THEN ExtractReplayFromDom(d) ELSE None

\* extractReplayFromDomWithRetry, one iteration: extractReplayFromDom()
\* is called on the page as it is now
DomAttempt(d, attemptsDone) == ExtractReplayFromDom(d)

\* an attempt of the dom stage is next: the url stage found nothing, or the
\* wait after an empty attempt is over
DomPollDue ==
    \/ pc = "resolve" /\ UrlStage(ctx, Href) = None
    \/ pc = "domWait"

\* one attempt of the dom stage; the first runs in the dispatch's own turn
DomPoll ==
    /\ DomPollDue
    /\ LET replay == DomAttempt(dom, domPolls)
       IN /\ domPolls' = domPolls + 1
          /\ pc' = AfterDomAttempt(replay, domPolls + 1)
          /\ resolution' = IF AfterDomAttempt(replay, domPolls + 1) = "resolved"
                           THEN replay ELSE resolution
          /\ empties' = IF replay = None THEN [empties EXCEPT !.dom = @ + 1] ELSE empties
    /\ UNCHANGED <<pageVars, msgType, request, action, ctx, response, calls, beforeUrl,
                   clickPolls, clicks, backs, rowVars, sessionVars, replies, popupVars, tabVars, walkVars, traceVars>>

\* extractReplayByClickingCta up to its first wait: click the first
\* call-to-action element, or give up when there is none
ClickCta ==
    /\ pc = "clickStage"
    /\ IF GetReplayCtaElements(dom) = <<>>
       THEN /\ pc' = "api"
            /\ UNCHANGED <<beforeUrl, clicks>>
       ELSE /\ beforeUrl' = Some(Href)
            /\ clicks' = clicks + 1
            /\ pc' = "clickWait"
    /\ UNCHANGED <<pageVars, msgType, request, action, ctx, response, calls,
                   resolution, domPolls, clickPolls, backs, rowVars, empties,
                   sessionVars, replies, popupVars, tabVars, walkVars, traceVars>>

\* a dom-click stage that goes back without comparing the page URL with
\* the URL captured before the click
NavigatesBack_AnyUrl(fromDom, fromLocation, href, before, historyLength) ==
    /\ fromDom = None
    /\ fromLocation # None
    /\ historyLength > 1

\* history.back() is called by the dom-click stage for this result
NavigatesBack(fromDom, fromLocation, href, before, historyLength) ==
    /\ fromDom = None
    /\ fromLocation # None
    /\ Some(href) # before
    /\ historyLength > 1

\* the result of one iteration of the dom-click loop
ClickAttempt(d, href) ==
    LET replayFromDom == ExtractReplayFromDom(d)
        replayFromLocation == ParseReplayFromUrl(href)
    IN IF replayFromDom # None
       THEN Some(Resolution(replayFromDom[1].replayId, replayFromDom[1].replayUrl,
                            "dom-click"))
       ELSE IF replayFromLocation # None
       THEN Some(Resolution(replayFromLocation[1].replayId,
                            replayFromLocation[1].replayUrl, "dom-click"))
       ELSE None

\* a dom-click loop with an off-by-one bound
AfterClickAttempt_OffByOne(replay, attemptsDone) ==
    IF replay # None THEN "resolved"
    ELSE IF attemptsDone <= ClickPollAttempts THEN "clickWait"
    ELSE "api"

\* extractReplayByClickingCta: where the loop goes after one iteration
AfterClickAttempt(replay, attemptsDone) ==
    IF replay # None THEN "resolved"
    ELSE IF attemptsDone < ClickPollAttempts THEN "clickWait"
    ELSE "api"

\* an iteration of the dom-click loop is next: its wait is running
ClickPollDue == pc = "clickWait"

\* one iteration of the dom-click loop, after its wait
ClickPoll ==
    /\ ClickPollDue
    /\ clickPolls' = clickPolls + 1
    /\ LET replay == ClickAttempt(dom, Href)
           back == NavigatesBack(ExtractReplayFromDom(dom), ParseReplayFromUrl(Href),
                                 Href, beforeUrl, Len(hist))
       IN /\ pc' = AfterClickAttempt(replay, clickPolls + 1)
          /\ resolution' = IF AfterClickAttempt(replay, clickPolls + 1) = "resolved"
                           THEN replay ELSE resolution
          /\ backs' = IF back THEN backs + 1 ELSE backs
          /\ histIdx' = IF back /\ histIdx > 1 THEN histIdx - 1 ELSE histIdx
          /\ empties' = IF replay = None THEN [empties EXCEPT !.click = @ + 1] ELSE empties
    /\ UNCHANGED <<hist, navs, dom, tab, rowsDom, stackDom, msgType, request, action,
                   ctx, response, calls, beforeUrl, domPolls, clicks, rowVars,
                   sessionVars, replies, popupVars, tabVars, walkVars, traceVars>>

\* a precondition that lets the query go out without an organization
ApiPrecondition_NoOrgCheck(c) ==
    IF c.issueId = Null THEN "No replay found on this page." ELSE "ok"

\* resolveReplay, stage api: the precondition decides between an error and
\* the remote query
ApiPrecondition(c) ==
    IF c.issueId = Null THEN "No replay found on this page."
    ELSE IF c.organizationSlug = Null THEN "No replay link found in DOM for this issue."
    ELSE "ok"

ApiStage ==
    /\ pc = "api"
    /\ IF ApiPrecondition(ctx) = "ok"
       THEN /\ calls' = Append(calls, "replays")
            /\ pc' = "apiWait"
            /\ UNCHANGED response
       ELSE /\ response' = Send(Failure(ApiPrecondition(ctx)))
            /\ pc' = "done"
            /\ UNCHANGED calls
    /\ UNCHANGED <<pageVars, msgType, request, action, ctx, resolveVars, rowVars,
                   empties, sessionVars, replies, popupVars, tabVars, walkVars, traceVars>>

\* the remote replays query answers: a failure, no usable row, or a replay
ApiRespond ==
    /\ pc = "apiWait"
    /\ \E outcome \in {"rejected", "empty", "row"} :
         /\ replies' = Append(replies, outcome)
         /\ CASE outcome = "rejected" ->
                   /\ response' = Send(Failure("Sentry API error"))
                   /\ pc' = "done"
                   /\ UNCHANGED resolution
              [] outcome = "empty" ->
                   /\ response' = Send(Failure("No replay is attached to this issue."))
                   /\ pc' = "done"
                   /\ UNCHANGED resolution
              [] OTHER ->
                   /\ resolution' = Some(Resolution("r9",
                                       CanonicalReplayUrl(ctx.organizationSlug, "r9"), "api"))
                   /\ pc' = "resolved"
                   /\ UNCHANGED response
    /\ UNCHANGED <<pageVars, msgType, request, action, ctx, calls, beforeUrl, domPolls,
                   clickPolls, clicks, backs, rowVars, empties, sessionVars, popupVars, tabVars, walkVars, traceVars>>

\* handleOpenReplay: the resolution is the action's data
OpenReplayDone ==
    /\ pc = "resolved"
    /\ action = "openReplay"
    /\ response' = Send(Ok(resolution[1]))
    /\ pc' = "done"
    /\ UNCHANGED <<pageVars, msgType, request, action, ctx, calls, resolveVars,
                   rowVars, empties, sessionVars, replies, popupVars, tabVars, walkVars, traceVars>>

\* ---------------------------------------------------- the row handlers
\* number of rows collected from one recording-segments response
MaxApiRows == 2

ApiRowLists == UNION {[1..n -> {1, 2, 3}] : n \in 0..MaxApiRows}

\* handleReplayErrors after resolveReplay: the replay details are fetched
\* when the organization is known
HandleReplayErrors ==
    /\ pc = "resolved"
    /\ action = "getReplayErrors"
    /\ IF ctx.organizationSlug # Null
       THEN /\ calls' = Append(calls, "replayDetails")
            /\ pc' = "detailsWait"
       ELSE /\ calls' = calls
            /\ pc' = "ensureTab"
    /\ UNCHANGED <<pageVars, msgType, request, action, ctx, response, resolveVars,
                   rowVars, empties, sessionVars, replies, popupVars, tabVars, walkVars, traceVars>>

\* handleReplayNetworkErrors after resolveReplay: off a replay page the
\* action answers at once, without rows
HandleReplayNetworkErrors ==
    /\ pc = "resolved"
    /\ action = "getReplayNetworkErrors"
    /\ IF ctx.pageType # "replay"
       THEN /\ response' = Send(Ok([replayId |-> resolution[1].replayId,
                                    replayUrl |-> resolution[1].replayUrl,
                                    source |-> resolution[1].source,
                                    shouldOpenReplay |-> TRUE,
                                    totalNetworkRequests |-> 0,
                                    totalNetworkErrors |-> 0,
                                    networkErrors |-> <<>>,
                                    networkDataSource |-> "dom"]))
            /\ pc' = "done"
            /\ calls' = calls
       ELSE /\ response' = response
            /\ IF ctx.organizationSlug # Null
               THEN /\ calls' = Append(calls, "replayDetails")
                    /\ pc' = "detailsWait"
               ELSE /\ calls' = calls
                    /\ pc' = "ensureTab"
    /\ UNCHANGED <<pageVars, msgType, request, action, ctx, resolveVars, rowVars,
                   empties, sessionVars, replies, popupVars, tabVars, walkVars, traceVars>>

Caught_Rethrow(outcome) == outcome

\* try { ... await sentryGet(...) ... } catch { ... }: what the code after
\* the statement goes on with; a rejection that is not caught is raised
\* to the listener
Caught(outcome) == IF outcome = "rejected" THEN "caught" ELSE outcome

\* the replay details call answers; a failure is caught and leaves null
DetailsRespond ==
    /\ pc = "detailsWait"
    /\ \E outcome \in {"rejected", "noProject", "withProject"} :
         /\ replies' = Append(replies, outcome)
         /\ IF Caught(outcome) = "rejected"
            THEN /\ response' = Send(Failure("Sentry API error"))
                 /\ pc' = "done"
                 /\ UNCHANGED details
            ELSE /\ details' = IF Caught(outcome) = "caught" THEN "null" ELSE outcome
                 /\ pc' = "ensureTab"
                 /\ UNCHANGED response
    /\ UNCHANGED <<pageVars, msgType, request, action, ctx, calls,
                   resolveVars, tabClicks, rowPolls, lastRan, lastParsed, lastRowsDom,
                   rows, collected, fromApi, empties, sessionVars, popupVars, tabVars, walkVars, traceVars>>

ClicksTab_Always(t) == TRUE

\* a tab selection that clicks whatever tab control it finds
ClicksTab_WhenFound(t) == t # "absent"

\* ensureReplay...TabSelected: the tab control is found and is not active
ClicksTab(t) == t = "inactive"

\* ensureReplayErrorsTabSelected / ensureReplayNetworkTabSelected: the
\* one tab.click() of the row actions, followed by a wait
EnsureTabSelected ==
    /\ pc = "ensureTab"
    /\ IF ClicksTab(tab)
       THEN /\ tabClicks' = tabClicks + 1
            /\ pc' = "tabWait"
       ELSE /\ tabClicks' = tabClicks
            /\ pc' = "rowPoll"
    /\ UNCHANGED <<pageVars, msgType, request, action, ctx, response, calls,
                   resolveVars, details, rowPolls, lastRan, lastParsed, lastRowsDom,
                   rows, collected, fromApi, empties, sessionVars, replies, popupVars, tabVars, walkVars, traceVars>>

\* an attempt of the row loop is next: attempt < 12
RowPollDue ==
    /\ pc \in {"rowPoll", "tabWait", "rowWait"}
    /\ rowPolls < RowPollAttempts

\* one attempt of get...EventsFromDomWithRetry: every strategy of the kind
\* runs, the results are concatenated, and a non-empty list is deduplicated
\* and returned
RowPoll ==
    /\ RowPollDue
    /\ LET attempt == RowAttempt(RowKind(action), rowsDom)
       IN /\ rowPolls' = rowPolls + 1
          /\ lastRan' = attempt.ran
          /\ lastParsed' = attempt.parsed
          /\ lastRowsDom' = rowsDom
          /\ IF attempt.parsed # <<>>
             THEN /\ rows' = Some(UniqueByKey(attempt.parsed, RowKind(action)))
                  /\ pc' = "rowsDone"
             ELSE /\ rows' = rows
                  /\ pc' = "rowWait"
          /\ empties' = IF attempt.parsed = <<>> THEN [empties EXCEPT !.rows = @ + 1]
                        ELSE empties
    /\ UNCHANGED <<pageVars, msgType, request, action, ctx, response, calls,
                   resolveVars, details, tabClicks, collected, fromApi, sessionVars, replies, popupVars, tabVars, walkVars, traceVars>>

\* the loop ends after the last attempt's wait: an empty list, no error
RowsExhausted ==
    /\ pc = "rowWait"
    /\ rowPolls = RowPollAttempts
    /\ rows' = Some(<<>>)
    /\ pc' = "rowsDone"
    /\ UNCHANGED <<pageVars, msgType, request, action, ctx, response, calls,
                   resolveVars, details, tabClicks, rowPolls, lastRan, lastParsed,
                   lastRowsDom, collected, fromApi, empties, sessionVars, replies, popupVars, tabVars, walkVars, traceVars>>

\* a handler that asks the API whatever the page yielded
UsesFallback_Always(fromDom, known) == known

\* fromDom.length === 0 && organizationSlug [&& projectRef]: the remote
\* fallback is asked only when the page yielded no rows
UsesFallback(fromDom, known) == fromDom = <<>> /\ known

\* handleReplayErrors after the DOM rows: the events query is the fallback
ErrorsAfterRows ==
    /\ pc = "rowsDone"
    /\ action = "getReplayErrors"
    /\ IF UsesFallback(rows[1], ctx.organizationSlug # Null)
       THEN /\ calls' = Append(calls, "events")
            /\ pc' = "eventsWait"
            /\ response' = response
       ELSE /\ calls' = calls
            /\ pc' = "done"
            /\ response' = Send(Ok(ErrorsData(resolution[1], rows[1], <<>>,
                                               ctx.pageType)))
    /\ UNCHANGED <<pageVars, msgType, request, action, ctx, resolveVars, rowVars,
                   empties, sessionVars, replies, popupVars, tabVars, walkVars, traceVars>>

\* getReplayErrorEvents answers: a failure is caught and yields no rows
EventsRespond ==
    /\ pc = "eventsWait"
    /\ \E outcome \in {"rejected", "empty", "rows"} :
         LET apiRows == IF Caught(outcome) = "rows"
                        THEN <<ErrorRow("abcd1234", "TypeError", "WEB-12", "10:01")>>
                        ELSE <<>>
         IN /\ replies' = Append(replies, outcome)
            /\ IF Caught(outcome) = "rejected"
               THEN /\ response' = Send(Failure("Sentry API error"))
                    /\ UNCHANGED fromApi
               ELSE /\ fromApi' = apiRows
                    /\ response' = Send(Ok(ErrorsData(resolution[1], rows[1], apiRows,
                                                       ctx.pageType)))
    /\ pc' = "done"
    /\ UNCHANGED <<pageVars, msgType, request, action, ctx, calls, resolveVars,
                   details, tabClicks, rowPolls, lastRan, lastParsed, lastRowsDom,
                   rows, collected, empties, sessionVars, popupVars, tabVars, walkVars, traceVars>>

\* handleReplayNetworkErrors after the DOM rows: the recording segments are
\* the fallback when the organization and the project are known
NetworkAfterRows ==
    /\ pc = "rowsDone"
    /\ action = "getReplayNetworkErrors"
    /\ IF UsesFallback(rows[1], ctx.organizationSlug # Null /\ details = "withProject")
       THEN /\ calls' = Append(calls, "segments")
            /\ pc' = "segmentsWait"
            /\ response' = response
       ELSE /\ calls' = calls
            /\ pc' = "done"
            /\ \E tabCount \in IF tab = "absent" THEN {None} ELSE TabCounts :
                 response' = Send(Ok(NetworkData(resolution[1], rows[1], <<>>,
                                                 tabCount)))
    /\ UNCHANGED <<pageVars, msgType, request, action, ctx, resolveVars, rowVars,
                   empties, sessionVars, replies, popupVars, tabVars, walkVars, traceVars>>

\* getReplayNetworkEventsFromApiSegments answers: a failure is caught and
\* yields no rows; the collected rows are deduplicated
SegmentsRespond ==
    /\ pc = "segmentsWait"
    /\ \E outcome \in {"rejected", "segments"}, list \in ApiRowLists :
         /\ outcome = "rejected" => list = <<>>
         /\ replies' = Append(replies, outcome)
         /\ IF Caught(outcome) = "rejected"
            THEN /\ response' = Send(Failure("Sentry API error"))
                 /\ UNCHANGED <<collected, fromApi>>
            ELSE LET candidates == MapSeq(list, ApiNetworkRow)
                 IN /\ collected' = candidates
                    /\ fromApi' = UniqueByKey(candidates, "network")
                    /\ \E tabCount \in IF tab = "absent" THEN {None} ELSE TabCounts :
                         response' = Send(Ok(NetworkData(resolution[1], rows[1],
                                                         fromApi', tabCount)))
    /\ pc' = "done"
    /\ UNCHANGED <<pageVars, msgType, request, action, ctx, calls, resolveVars,
                   details, tabClicks, rowPolls, lastRan, lastParsed, lastRowsDom,
                   rows, empties, sessionVars, popupVars, tabVars, walkVars, traceVars>>

\* ------------------------------------------------------ specifications
Next ==
    \/ HostMutateDom
    \/ HostNavigate
    \/ HostMutateRows
    \/ Dispatch
    \/ IssueHandlerStart
    \/ LatestEventRespond
    \/ ResolveUrl
    \/ DomPoll
    \/ ClickCta
    \/ ClickPoll
    \/ ApiStage
    \/ ApiRespond
    \/ OpenReplayDone
    \/ HandleReplayErrors
    \/ HandleReplayNetworkErrors
    \/ DetailsRespond
    \/ EnsureTabSelected
    \/ RowPoll
    \/ RowsExhausted
    \/ ErrorsAfterRows
    \/ EventsRespond
    \/ NetworkAfterRows
    \/ SegmentsRespond

Spec == Init /\ [][Next]_vars

\* --------------------------------------------- the context of a pathname
\* number of segments of a pathname
MaxSegs == 4

\* the words a path segment is drawn from: the three words the patterns
\* name, a percent-encoded word and a malformed percent sequence
PathWords == {"organizations", "issues", "replays", "ac%6De", "%zz"}

Pathnames ==
    {Url(s, sl) : s \in UNION {[1..n -> PathWords] : n \in 0..MaxSegs}, sl \in BOOLEAN}

\* a message meets a page of any pathname
InitContext ==
    /\ PopupInit /\ listeners = 1
    /\ WalkInit /\ tree = {}
    /\ TraceInit /\ section = <<>> /\ apiFrames = <<>>
    /\ msgType = "NIZO_ACTION"
    /\ request \in {"openReplay", "getUserDetails"}
    /\ hist \in {<<u>> : u \in Pathnames \cup StartUrls}
    /\ dom \in {{}, {1}, {3}}
    /\ tab = "absent"
    /\ stackDom = FALSE
    /\ EngineInit

\* the dispatch alone: the step that derives the context
NextContext == Dispatch

SpecContext == InitContext /\ [][NextContext]_vars

\* ------------------------------------------------ a session of messages
\* number of messages sent to the tab
MaxMessages == 2

SessionRequests == {"openReplay", "getUserDetails"}

InitSession ==
    /\ PopupInit /\ listeners = 1
    /\ WalkInit /\ tree = {}
    /\ TraceInit /\ section = <<>> /\ apiFrames = <<>>
    /\ msgType = "NIZO_ACTION"
    /\ request \in SessionRequests
    /\ hist \in {<<u>> : u \in StartUrls}
    /\ dom \in {{}, {1}}
    /\ tab = "absent"
    /\ stackDom = FALSE
    /\ EngineInit

\* a further message reaches the listener
NextMessage ==
    /\ pc # "idle"
    /\ served < MaxMessages
    /\ request' \in SessionRequests
    /\ pc' = "idle"
    /\ action' = "none"
    /\ response' = <<>>
    /\ UNCHANGED <<pageVars, msgType, ctx, calls, resolveVars, rowVars, empties,
                   sessionVars, replies, popupVars, tabVars, walkVars, traceVars>>

\* the page navigates, at any moment, and renders the new page's links
PageNavigates ==
    /\ navs < MaxNav
    /\ \E target \in StartUrls \ {Href}, push \in BOOLEAN :
         IF push
         THEN /\ hist' = Append(SubSeq(hist, 1, histIdx), target)
              /\ histIdx' = histIdx + 1
         ELSE /\ hist' = [hist EXCEPT ![histIdx] = target]
              /\ histIdx' = histIdx
    /\ navs' = navs + 1
    /\ dom' \in {{}, {1}}
    /\ UNCHANGED <<tab, rowsDom, stackDom, ctlVars, resolveVars, rowVars, empties,
                   sessionVars, replies, popupVars, tabVars, walkVars, traceVars>>

\* Each action is followed up to the context it is handed; what the
\* handlers do with it is followed under Spec.
NextSession ==
    \/ Dispatch
    \/ NextMessage
    \/ PageNavigates

SpecSession == InitSession /\ [][NextSession]_vars

\* ------------------------------------------------------------ the popup
\* number of actions the user starts from one popup
MaxPopupRuns == 2

engineVars == <<pageVars, ctlVars, resolveVars, rowVars, empties, sessionVars, replies>>

\* the buttons of the popup
PopupActions == ReplayActions \cup IssueActions

\* getActiveTab and isSentryTab: no tab, a tab that is no Sentry page, a
\* Sentry page
ActiveTabs == {"none", "other", "sentry"}

Payload(prompt, replayUrl, shouldOpenReplay) ==
    [prompt |-> prompt, replayUrl |-> replayUrl, shouldOpenReplay |-> shouldOpenReplay]

\* the responses a tab sends back
PopupResponses ==
    {Failure("No replay found on this page."), Failure(Null)}
    \cup {Ok(Payload(p, u, o)) : p \in {"", "#0 f (a.js:1)"},
                                u \in {"", "https://sentry.io/replays/r1/"},
                                o \in BOOLEAN}

\* the popup is opened on some tab; the engine's side is not followed
InitPopup ==
    /\ msgType = "NIZO_ACTION"
    /\ request = Null
    /\ hist = <<IssueUrl>>
    /\ dom = {}
    /\ tab = "absent"
    /\ stackDom = FALSE
    /\ EngineInit
    /\ PopupInit /\ listeners \in {0, 1}
    /\ WalkInit /\ tree = {}
    /\ TraceInit /\ section = <<>> /\ apiFrames = <<>>

\* a runAction whose catch block is not followed by setLoading(false)
PopupFail_StaysLocked(message) ==
    /\ status' = "Action failed."
    /\ shownError' = message
    /\ loading' = loading
    /\ popupPc' = "ready"

\* runAction's catch and finally: the failure is shown, the buttons are
\* enabled again
PopupFail(message) ==
    /\ status' = "Action failed."
    /\ shownError' = message
    /\ loading' = FALSE
    /\ popupPc' = "ready"

\* a click on an action button (a disabled button takes no click):
\* runAction up to getActiveTab
PopupRunAction ==
    /\ ~loading
    /\ popupRuns < MaxPopupRuns
    /\ \E a \in PopupActions : popupAction' = a
    /\ loading' = TRUE
    /\ status' = "Working..."
    /\ shownError' = Null
    /\ transport' = <<>>
    /\ answers' = <<>>
    /\ openedTabs' = 0
    /\ popupRuns' = popupRuns + 1
    /\ popupPc' = "tabQuery"
    /\ started' = 0
    /\ UNCHANGED <<engineVars, listeners, walkVars, traceVars>>

\* getActiveTab answers; on a Sentry tab the request is sent
ActiveTabAnswers ==
    /\ popupPc = "tabQuery"
    /\ \E t \in ActiveTabs :
         CASE t = "none" ->
                /\ PopupFail("Open a Sentry issue tab first.")
                /\ UNCHANGED transport
           [] t = "other" ->
                /\ PopupFail("Open a Sentry issue or replay tab first.")
                /\ UNCHANGED transport
           [] OTHER ->
                /\ transport' = Append(transport, "send")
                /\ popupPc' = "sendWait"
                /\ UNCHANGED <<status, shownError, loading>>
    /\ UNCHANGED <<engineVars, popupAction, answers, popupRuns, openedTabs, tabVars,
                   walkVars, traceVars>>

SendRetry_Always(attempt, outcome) ==
    IF outcome # "lastError" THEN "respond" ELSE "inject"

\* sendMessageToTab: what follows the answer of the attempt-th send
SendRetry(attempt, outcome) ==
    IF outcome # "lastError" THEN "respond"
    ELSE IF attempt = 1 THEN "inject"
    ELSE "fail"

\* runAction after sendMessageToTab: the status shown for a response, the
\* error shown, and the tabs opened
ShowResponse(a, r, copied) ==
    IF ~r.ok
    THEN [status |-> "Action failed.",
          error |-> IF r.error = Null THEN "Action failed." ELSE r.error, opens |-> 0]
    ELSE IF a = "getRawStacktracePrompt"
    THEN IF r.data.prompt = ""
         THEN [status |-> "Action failed.",
               error |-> "Unable to generate prompt from this issue.", opens |-> 0]
         ELSE IF ~copied
         THEN [status |-> "Action failed.", error |-> "Clipboard write failed.",
               opens |-> 0]
         ELSE [status |-> "Prompt copied to clipboard.", error |-> Null, opens |-> 0]
    ELSE IF a = "openReplay"
    THEN IF r.data.replayUrl = ""
         THEN [status |-> "Action failed.", error |-> "No replay found for this issue.",
               opens |-> 0]
         ELSE [status |-> "Replay opened in a new tab.", error |-> Null, opens |-> 1]
    ELSE IF a = "getUserDetails"
    THEN [status |-> "User and device details loaded.", error |-> Null, opens |-> 0]
    ELSE [status |-> IF a = "getReplayErrors" THEN "Replay errors loaded."
                     ELSE "Replay network errors loaded.",
          error |-> Null,
          opens |-> IF r.data.replayUrl # "" /\ r.data.shouldOpenReplay THEN 1 ELSE 0]

\* chrome.runtime.onMessage.addListener at the top level of content.js:
\* every execution of the script in a page registers one more listener
AfterInjection(registered) == registered + 1

\* the message is handed to every listener registered in the page, and each
\* starts runAction for a NIZO_ACTION message and returns true
RunsStarted(registered) == registered

\* what a send brings back: chrome.runtime.lastError (None), the only
\* outcome when no listener is registered, or the response of the tab
TabReplies(registered) ==
    IF registered = 0 THEN {None}
    ELSE {None} \cup {Some(r) : r \in PopupResponses}

\* a send is answered: with chrome.runtime.lastError set, or with the
\* response of the tab
SendAnswers ==
    /\ popupPc = "sendWait"
    /\ started' = RunsStarted(listeners)
    /\ \E reply \in TabReplies(listeners), copied \in BOOLEAN :
         LET outcome == IF reply = None THEN "lastError" ELSE "ok"
             attempt == Len(SelectSeq(transport, LAMBDA t : t = "send"))
             next == SendRetry(attempt, outcome)
         IN /\ answers' = Append(answers, outcome)
            /\ CASE next = "inject" ->
                      /\ transport' = Append(transport, "inject")
                      /\ popupPc' = "injectWait"
                      /\ UNCHANGED <<status, shownError, loading, openedTabs>>
                 [] next = "fail" ->
                      /\ PopupFail("Unable to message tab.")
                      /\ UNCHANGED <<transport, openedTabs>>
                 [] OTHER ->
                      LET shown == ShowResponse(popupAction, reply[1], copied)
                      IN /\ status' = shown.status
                         /\ shownError' = shown.error
                         /\ openedTabs' = shown.opens
                         /\ loading' = FALSE
                         /\ popupPc' = "ready"
                         /\ UNCHANGED transport
    /\ UNCHANGED <<engineVars, popupAction, popupRuns, listeners, walkVars, traceVars>>

\* injectContentScript is answered; after a success the request is sent
\* once more
InjectAnswers ==
    /\ popupPc = "injectWait"
    /\ \E injected \in BOOLEAN :
         IF injected
         THEN /\ answers' = Append(answers, "ok")
              /\ transport' = Append(transport, "send")
              /\ popupPc' = "sendWait"
              /\ listeners' = AfterInjection(listeners)
              /\ UNCHANGED <<status, shownError, loading>>
         ELSE /\ answers' = Append(answers, "lastError")
              /\ PopupFail("Unable to inject Nizo script into this tab.")
              /\ UNCHANGED <<transport, listeners>>
    /\ UNCHANGED <<engineVars, popupAction, popupRuns, openedTabs, started, walkVars,
                   traceVars>>

NextPopup ==
    \/ PopupRunAction
    \/ ActiveTabAnswers
    \/ SendAnswers
    \/ InjectAnswers

SpecPopup == InitPopup /\ [][NextPopup]_vars

\* ------------------------------------------- the composite-tree traversal
\* number of frame elements and shadow hosts on the page
MaxLinks == 3

\* the documents and the shadow roots of the page; "top" is window.document
Docs == {"top", "frameA", "frameB"}
ShadowRoots == {"shadow1", "shadow2"}
Roots == Docs \cup ShadowRoots

\* the contentDocument of a frame that is cross-origin or not loaded
NoDocument == "none"

\* the document order of the frame elements and shadow hosts of one root
RootOrder == <<"top", "frameA", "frameB", "shadow1", "shadow2">>

\* A link <<r, t>> is an element in the tree of root r: an iframe whose
\* contentDocument is t when t is a document or NoDocument, the host of
\* shadow root t otherwise.  A shadow root has one host.  Frames may share
\* a document and may form a cycle.
Links == Roots \X (Roots \cup {NoDocument})

\* the subsets of S with at most n elements
RECURSIVE SubsetsUpTo(_, _)
SubsetsUpTo(S, n) ==
    IF n = 0 THEN {{}}
    ELSE LET smaller == SubsetsUpTo(S, n - 1)
         IN smaller \cup {t \cup {x} : t \in smaller, x \in S}

Trees ==
    {t \in SubsetsUpTo(Links, MaxLinks) :
        \A sr \in ShadowRoots : Cardinality({l \in t : l[2] = sr}) <= 1}

\* every root holds one element the selector matches; the frame elements
\* and the shadow hosts do not match it
Hit(r) == <<r, "hit">>

\* root.querySelectorAll(selector): the matches in the tree of one root,
\* the trees of the shadow roots and frames below it excluded
QuerySelectorAll(r) == <<Hit(r)>>

\* doc.querySelectorAll("iframe") and frame.contentDocument: the accessible
\* documents of the frames in the tree of one document
FrameDocuments(t, doc) ==
    SelectSeq(RootOrder, LAMBDA target : target \in Docs /\ <<doc, target>> \in t)

\* root.querySelectorAll("*") and element.shadowRoot: the shadow roots
\* hosted in the tree of one root
HostedShadowRoots(t, root) ==
    SelectSeq(RootOrder, LAMBDA target : target \in ShadowRoots /\ <<root, target>> \in t)

AlreadySeen_Never(seen, x) == FALSE

\* seen.has(x) / visitedRoots.has(x)
AlreadySeen(seen, x) == x \in seen

\* queryAllEverywhere's loop over found: the elements not seen yet are
\* appended, each once
RECURSIVE AppendUnseen(_, _, _)
AppendUnseen(found, seen, acc) ==
    IF found = <<>> THEN acc
    ELSE IF AlreadySeen(seen, Head(found))
    THEN AppendUnseen(Tail(found), seen, acc)
    ELSE AppendUnseen(Tail(found), seen \cup {Head(found)}, Append(acc, Head(found)))

InitWalk ==
    /\ msgType = "NIZO_ACTION"
    /\ request = Null
    /\ hist = <<IssueUrl>>
    /\ dom = {}
    /\ tab = "absent"
    /\ stackDom = FALSE
    /\ EngineInit
    /\ PopupInit /\ listeners = 1
    /\ WalkInit
    /\ tree \in Trees
    /\ TraceInit /\ section = <<>> /\ apiFrames = <<>>

\* getAccessibleDocuments, one walk(doc) call: a document seen before is
\* left alone; a new one is recorded and its frames' documents are walked
\* next, in document order
WalkDocument ==
    /\ walkPc = "docs"
    /\ docStack # <<>>
    /\ LET doc == Head(docStack)
       IN IF AlreadySeen(seenDocs, doc)
          THEN /\ docStack' = Tail(docStack)
               /\ UNCHANGED <<seenDocs, docs>>
          ELSE /\ seenDocs' = seenDocs \cup {doc}
               /\ docs' = Append(docs, doc)
               /\ docStack' = FrameDocuments(tree, doc) \o Tail(docStack)
    /\ UNCHANGED <<engineVars, popupVars, tabVars, traceVars, tree, walkPc, docIdx, rootStack, visitedRoots,
                   results, seenElems, elements, queried>>

\* queryAllEverywhere after getAccessibleDocuments: queryAllDeepInRoot
\* starts on the first document
DocumentsDone ==
    /\ walkPc = "docs"
    /\ docStack = <<>>
    /\ walkPc' = "roots"
    /\ docIdx' = 1
    /\ rootStack' = <<docs[1]>>
    /\ visitedRoots' = {}
    /\ results' = <<>>
    /\ UNCHANGED <<engineVars, popupVars, tabVars, traceVars, tree, docStack, seenDocs, docs, seenElems,
                   elements, queried>>

\* queryAllDeepInRoot, one walk(root) call: a root visited before is left
\* alone; in a new one the selector is run and the shadow roots of its
\* elements are walked next
WalkRoot ==
    /\ walkPc = "roots"
    /\ rootStack # <<>>
    /\ LET root == Head(rootStack)
       IN IF AlreadySeen(visitedRoots, root)
          THEN /\ rootStack' = Tail(rootStack)
               /\ UNCHANGED <<visitedRoots, results, queried>>
          ELSE /\ visitedRoots' = visitedRoots \cup {root}
               /\ results' = results \o QuerySelectorAll(root)
               /\ queried' = Append(queried, root)
               /\ rootStack' = HostedShadowRoots(tree, root) \o Tail(rootStack)
    /\ UNCHANGED <<engineVars, popupVars, tabVars, traceVars, tree, walkPc, docStack, seenDocs, docs, docIdx,
                   seenElems, elements>>

\* queryAllEverywhere after one queryAllDeepInRoot: the new elements are
\* kept, and the next document is queried or the call returns
MergeFound ==
    /\ walkPc = "roots"
    /\ rootStack = <<>>
    /\ elements' = AppendUnseen(results, seenElems, elements)
    /\ seenElems' = seenElems \cup {results[i] : i \in 1..Len(results)}
    /\ IF docIdx < Len(docs)
       THEN /\ docIdx' = docIdx + 1
            /\ rootStack' = <<docs[docIdx + 1]>>
            /\ visitedRoots' = {}
            /\ results' = <<>>
            /\ UNCHANGED walkPc
       ELSE /\ walkPc' = "done"
            /\ UNCHANGED <<docIdx, rootStack, visitedRoots, results>>
    /\ UNCHANGED <<engineVars, popupVars, tabVars, traceVars, tree, docStack, seenDocs, docs, queried>>

NextWalk ==
    \/ WalkDocument
    \/ DocumentsDone
    \/ WalkRoot
    \/ MergeFound

SpecWalk == InitWalk /\ [][NextWalk]_vars

\* the traversal is one synchronous call: it runs on until it returns
SpecWalkFair == SpecWalk /\ WF_vars(NextWalk)

\* ------------------------------------------- stack-trace normalization
\* number of lines of a stack-trace section, and of frames of an exception
MaxLines == 3

\* a line of the page text: a noise line, a line of the form
\* "#<digits> ...", a pretty frame "file in function at line N [within
\* module]", or any other text
Line(kind, text, file, functionName, lineNo, moduleName) ==
    [kind |-> kind, text |-> text, file |-> file, functionName |-> functionName,
     lineNo |-> lineNo, moduleName |-> moduleName]

TextLine(kind, text) == Line(kind, text, Null, Null, Null, Null)
PrettyLine(file, functionName, lineNo, moduleName) ==
    Line("pretty", Null, file, functionName, lineNo, moduleName)

SectionLines ==
    {TextLine("noise", "Stack Trace"),
     TextLine("raw", "#0 main (a.js:1)"),
     TextLine("text", "TypeError"),
     TextLine("text", "Error: x is undefined"),
     PrettyLine("foo.js", "handleClick", "42", Null),
     PrettyLine("bar.js", "onSubmit", "10", "FormModule")}

Sections == UNION {[1..n -> SectionLines] : n \in 0..MaxLines}

\* a frame of the event's stack trace
SentryFrame(function, filename, lineno, colno) ==
    [function |-> function, filename |-> filename, lineno |-> lineno, colno |-> colno]

EventFrames ==
    {SentryFrame("handleClick", "foo.js", "42", "7"), SentryFrame(Null, Null, Null, Null)}

FrameLists == UNION {[1..n -> EventFrames] : n \in 0..MaxLines}

\* a line of the output: text, or a frame "#index function (location)"
OutText(parts) ==
    [kind |-> "text", index |-> -1, functionName |-> Null, location |-> parts]
OutFrame(index, functionName, location) ==
    [kind |-> "frame", index |-> index, functionName |-> functionName,
     location |-> location]

Reverse(seq) == [i \in 1..Len(seq) |-> seq[Len(seq) + 1 - i]]

IsStackNoiseLine(line) == line.kind = "noise"

\* parseFrameFromPrettyLine(line) !== null
IsPrettyFrame(line) == line.kind = "pretty"

\* the index of the first line that satisfies Test, 0 when there is none
\* (findIndex, counted from 1)
FindIndex(lines, Test(_)) ==
    IF \E i \in 1..Len(lines) : Test(lines[i])
    THEN CHOOSE i \in 1..Len(lines) :
            Test(lines[i]) /\ \A j \in 1..(i - 1) : ~Test(lines[j])
    ELSE 0

\* formatFrameAsRaw, index counted from 0
FormatFrameAsRaw(frame, index) ==
    OutFrame(index, frame.functionName,
             IF frame.moduleName # Null
             THEN <<"package:", frame.moduleName, "/", frame.file, ":", frame.lineNo>>
             ELSE <<frame.file, ":", frame.lineNo>>)

ParsedFrames_Reversed(lines) == Reverse(SelectSeq(lines, IsPrettyFrame))

\* lines.map(parseFrameFromPrettyLine).filter(Boolean)
ParsedFrames(lines) == SelectSeq(lines, IsPrettyFrame)

\* text.includes(":")
IncludesColon(text) == text \in {"Error: x is undefined", "#0 main (a.js:1)"}

\* the text of a line as it stands on the page, in parts
Verbatim(l) ==
    IF l.kind # "pretty" THEN <<l.text>>
    ELSE <<l.file, " in ", l.functionName, " at line ", l.lineNo>>
         \o (IF l.moduleName = Null THEN <<>> ELSE <<" within ", l.moduleName>>)

\* lines.join(" ")
RECURSIVE JoinLines(_)
JoinLines(lines) ==
    IF lines = <<>> THEN <<>>
    ELSE IF Len(lines) = 1 THEN Verbatim(lines[1])
    ELSE Verbatim(lines[1]) \o <<" ">> \o JoinLines(Tail(lines))

\* the header built from the lines before the first frame
SectionHeader(beforeFrames) ==
    IF Len(beforeFrames) >= 2 /\ ~IncludesColon(beforeFrames[1].text)
    THEN <<OutText(<<beforeFrames[1].text, ": ", beforeFrames[2].text>>)>>
    ELSE IF Len(beforeFrames) >= 1 THEN <<OutText(<<beforeFrames[1].text>>)>>
    ELSE <<>>

\* toRawStacktraceFromSection
ToRawStacktraceFromSection(sectionText) ==
    LET lines == SelectSeq(sectionText, LAMBDA l : ~IsStackNoiseLine(l))
        alreadyRawStart == FindIndex(lines, LAMBDA l : l.kind = "raw")
        parsedFrames == ParsedFrames(lines)
        firstFrameLine == FindIndex(lines, IsPrettyFrame)
        asText(l) == OutText(Verbatim(l))
    IN IF lines = <<>> THEN None
       ELSE IF alreadyRawStart > 0
       THEN Some((IF alreadyRawStart > 1
                  THEN <<OutText(JoinLines(SubSeq(lines, 1, alreadyRawStart - 1)))>>
                  ELSE <<>>)
                 \o [i \in 1..(Len(lines) - alreadyRawStart + 1) |->
                        asText(lines[alreadyRawStart + i - 1])])
       ELSE IF parsedFrames = <<>>
       THEN Some([i \in 1..Len(lines) |-> asText(lines[i])])
       ELSE Some(SectionHeader(SubSeq(lines, 1, firstFrameLine - 1))
                 \o [i \in 1..Len(parsedFrames) |->
                        FormatFrameAsRaw(parsedFrames[i], i - 1)])

\* formatFrame
FormatFrame(frame) ==
    [functionName |-> IF frame.function = Null THEN "<anonymous>" ELSE frame.function,
     location |-> <<IF frame.filename = Null THEN "unknown" ELSE frame.filename, ":",
                    IF frame.lineno = Null THEN "?" ELSE frame.lineno, ":",
                    IF frame.colno = Null THEN "?" ELSE frame.colno>>]

\* normalizeFrames: None stands for "(no frames)"
NormalizeFrames(frames) ==
    IF frames = <<>> THEN None
    ELSE Some([i \in 1..Len(frames) |-> FormatFrame(Reverse(frames)[i])])

InitTrace ==
    /\ msgType = "NIZO_ACTION"
    /\ request = Null
    /\ hist = <<IssueUrl>>
    /\ dom = {}
    /\ tab = "absent"
    /\ stackDom = FALSE
    /\ EngineInit
    /\ PopupInit /\ listeners = 1
    /\ WalkInit /\ tree = {}
    /\ TraceInit
    /\ section \in Sections
    /\ apiFrames \in FrameLists

\* extractStacktraceFromDom normalizes the section of the page text
NormalizeSection ==
    /\ rawTrace = None
    /\ ToRawStacktraceFromSection(section) # None
    /\ rawTrace' = ToRawStacktraceFromSection(section)
    /\ UNCHANGED <<engineVars, popupVars, tabVars, walkVars, section, apiFrames, apiTrace>>

\* extractRawStacktrace normalizes the frames of an exception
NormalizeEventFrames ==
    /\ apiTrace = None
    /\ NormalizeFrames(apiFrames) # None
    /\ apiTrace' = NormalizeFrames(apiFrames)
    /\ UNCHANGED <<engineVars, popupVars, tabVars, walkVars, section, rawTrace, apiFrames>>

NextTrace ==
    \/ NormalizeSection
    \/ NormalizeEventFrames

SpecTrace == InitTrace /\ [][NextTrace]_vars

\* ---------------------------------------------------------- properties
HasCall(name) == \E i \in 1..Len(calls) : calls[i] = name

ReplayQueries(cs) == SelectSeq(cs, LAMBDA c : c = "replays")

Source == IF resolution = None THEN "none" ELSE resolution[1].source

\* C1: resolveReplay tries url, dom, dom-click, api in this order and stops
\* at the first stage with a result: the click comes only after 8 empty dom
\* attempts, the replays query only after the dom-click stage gave nothing,
\* and once there is a result no poll, click or replays query follows.
C1_StagesInOrder ==
    /\ [](/\ domPolls > 0 => ctx.replayId = Null
          /\ clicks > 0 => domPolls = 8 /\ empties.dom = 8
          /\ HasCall("replays") =>
                /\ domPolls = 8 /\ empties.dom = 8
                /\ clicks = 0 \/ (clickPolls = 10 /\ empties.click = 10)
          /\ Source = "url" =>
                domPolls = 0 /\ clicks = 0 /\ clickPolls = 0 /\ ~HasCall("replays")
          /\ Source = "dom" => clicks = 0 /\ clickPolls = 0 /\ ~HasCall("replays")
          /\ Source = "dom-click" => clicks = 1 /\ ~HasCall("replays")
          /\ Source = "api" => HasCall("replays"))
    /\ [][resolution # None =>
            /\ UNCHANGED <<resolution, domPolls, clickPolls, clicks>>
            /\ ReplayQueries(calls') = ReplayQueries(calls)]_vars

C1_Witness ==
    /\ Source = "api"
    /\ domPolls = 8
    /\ clicks = 1
    /\ clickPolls = 10

\* C2: when the context carries a replay id, resolveReplay returns source
\* "url" with that id, and until it returns there is no remote call, no
\* DOM poll and no click.
C2_UrlResolutionIsLocal ==
    (action \in ReplayActions /\ ctx.replayId # Null /\ pc # "resolve") =>
        /\ Source = "url"
        /\ resolution[1].replayId = ctx.replayId
        /\ domPolls = 0 /\ clickPolls = 0 /\ clicks = 0
        /\ ~HasCall("replays")
        /\ pc = "resolved" => calls = <<>>

C2_Witness ==
    /\ pc = "resolved"
    /\ ctx.replayId = "r1"
    /\ 1 \in dom

\* C3 as stated: a "url" resolution always carries the organization URL
\* /organizations/<organizationSlug>/replays/<replayId>/, also when the
\* organization slug is null.
C3_Original ==
    (pc = "resolved" /\ Source = "url") =>
        resolution[1].replayUrl = CanonicalReplayUrl(ctx.organizationSlug, ctx.replayId)

\* C3 amended: a "url" resolution carries the organization URL when the
\* organization slug is known, and the page's current URL when it is null.
C3_UrlOfUrlResolution ==
    (pc = "resolved" /\ Source = "url") =>
        resolution[1].replayUrl =
            IF ctx.organizationSlug # Null
            THEN Url(<<"organizations", ctx.organizationSlug, "replays", ctx.replayId>>, TRUE)
            ELSE Href

C3_Witness ==
    /\ pc = "resolved"
    /\ Source = "url"
    /\ ctx.organizationSlug = Null
    /\ Href = BareReplayUrl

\* C4: when url, dom and dom-click gave nothing and the organization slug
\* or the issue id is missing, the action fails with an error and no remote
\* query is sent; the replays query goes out only when both are known.
C4_ApiNeedsOrgAndIssue ==
    /\ HasCall("replays") => ctx.organizationSlug # Null /\ ctx.issueId # Null
    /\ (action \in ReplayActions /\ pc = "done" /\ resolution = None
            /\ (ctx.organizationSlug = Null \/ ctx.issueId = Null)) =>
          /\ response # None
          /\ ~response[1].ok
          /\ response[1].error \in {"No replay found on this page.",
                                    "No replay link found in DOM for this issue."}
          /\ calls = <<>>

C4_Witness ==
    /\ pc = "done"
    /\ response = Some(Failure("No replay link found in DOM for this issue."))
    /\ clicks = 1
    /\ clickPolls = 10

\* C5: whenever the dom-click stage returns a resolution while the page URL
\* differs from the URL captured before the click and the history holds
\* more than one entry, history.back() has been called, whether the replay
\* came from a link in the DOM or from the page's own URL.
C5_BackAfterNavigation ==
    [][(/\ pc = "clickWait"
        /\ pc' = "resolved"
        /\ Some(Href) # beforeUrl
        /\ Len(hist) > 1) => backs' = backs + 1]_vars

\* C6: every polling loop calls its producer at most 8 (dom), 10 (after the
\* click) or 12 (rows) times, returns the first non-empty result without
\* another call, and ends with an empty result, not an error, when all
\* attempts were empty; a result after n empty attempts takes n + 1 calls.
C6_BoundedPolling ==
    /\ [](/\ domPolls <= 8 /\ clickPolls <= 10 /\ rowPolls <= 12
          /\ Source = "dom" => domPolls = empties.dom + 1
          /\ Source = "dom-click" => clickPolls = empties.click + 1
          /\ (rows # None /\ rows # Some(<<>>)) => rowPolls = empties.rows + 1
          /\ pc = "clickStage" =>
                domPolls = 8 /\ empties.dom = 8 /\ resolution = None /\ response = None
          /\ (pc = "api" /\ clicks > 0) =>
                clickPolls = 10 /\ empties.click = 10 /\ resolution = None /\ response = None
          /\ rows = Some(<<>>) =>
                /\ rowPolls = 12 /\ empties.rows = 12
                /\ pc = "rowsDone" => response = None)
    /\ [][/\ resolution # None => domPolls' = domPolls /\ clickPolls' = clickPolls
          /\ rows # None => rowPolls' = rowPolls /\ rows' = rows]_vars

C6_Witness ==
    /\ rows # None
    /\ rows # Some(<<>>)
    /\ empties.rows = 3
    /\ rowPolls = 4

\* C7: every attempt of the error row extraction runs the structured rows,
\* the anchor rows and the free-text strategy, in this order, whatever the
\* earlier ones found, and what is deduplicated is the concatenation of
\* the three results in this order.
C7_ErrorStrategiesAllRun ==
    (action = "getReplayErrors" /\ rowPolls > 0) =>
        /\ lastRan = <<"rows", "anchors", "text">>
        /\ lastParsed = ParseErrorRows(GetReplayErrorRows(lastRowsDom))
                        \o ParseErrorRows(GetReplayErrorRowsFromAnchors(lastRowsDom))
                        \o ParseReplayEventsFromPageText(lastRowsDom)

C7_Witness ==
    /\ action = "getReplayErrors"
    /\ rows # None
    /\ lastRowsDom = {1, 2, 3}
    /\ Len(lastParsed) = 5

\* C8 as stated: every attempt of the network row extraction computes
\* three candidate sets: structured rows, anchor rows and free-text rows.
C8_Original ==
    (action = "getReplayNetworkErrors" /\ rowPolls > 0) =>
        lastRan = <<"rows", "anchors", "text">>

\* C8 amended: every attempt of the network row extraction computes two
\* candidate sets, the structured rows and the free-text rows, and merges
\* both, in this order, before deduplication; it has no anchor strategy.
C8_NetworkStrategiesAllRun ==
    (action = "getReplayNetworkErrors" /\ rowPolls > 0) =>
        /\ lastRan = <<"rows", "text">>
        /\ lastParsed = ParseNetworkRows(GetReplayNetworkRows(lastRowsDom))
                        \o ParseReplayNetworkEventsFromPageText(lastRowsDom)

C8_Witness ==
    /\ action = "getReplayNetworkErrors"
    /\ rows # None
    /\ lastRowsDom = {2, 3}
    /\ Len(lastParsed) = 2

FirstWithKey(candidates, kind, k) ==
    candidates[CHOOSE j \in 1..Len(candidates) :
                 /\ RowKey(candidates[j], kind) = k
                 /\ \A l \in 1..(j - 1) : RowKey(candidates[l], kind) # k]

\* C9: of the candidates that share a composite key, the row kept by the
\* deduplication is the first one, with all of its own fields (for a
\* network row: its detailsUrl, duration and title).
C9_FirstOccurrenceKept ==
    rows # None =>
        \A i \in 1..Len(rows[1]) :
            rows[1][i] = FirstWithKey(lastParsed, RowKind(action),
                                      RowKey(rows[1][i], RowKind(action)))

KeysOf(rs, kind) == MapSeq(rs, LAMBDA r : RowKey(r, kind))

RECURSIVE DistinctInOrder(_)
DistinctInOrder(ks) ==
    IF ks = <<>> THEN <<>>
    ELSE LET init == DistinctInOrder(SubSeq(ks, 1, Len(ks) - 1))
             last == ks[Len(ks)]
         IN IF \E i \in 1..Len(init) : init[i] = last THEN init ELSE Append(init, last)

NoKeyTwice(rs, kind) ==
    \A i, j \in 1..Len(rs) : RowKey(rs[i], kind) = RowKey(rs[j], kind) => i = j

Deduplicated(result, candidates, kind) ==
    /\ NoKeyTwice(result, kind)
    /\ KeysOf(result, kind) = DistinctInOrder(KeysOf(candidates, kind))

\* C10: the rows returned by a deduplicating extraction (rows of the DOM
\* loops, rows of the recording segments, rows of the page text) never hold
\* a composite key twice, and they are in the order in which their keys
\* first occur among the candidates.
C10_KeysUniqueInFirstOrder ==
    /\ rows # None => Deduplicated(rows[1], lastParsed, RowKind(action))
    /\ (pc = "done" /\ HasCall("segments")) =>
          Deduplicated(fromApi, collected, "network")
    /\ (rowPolls > 0 /\ action = "getReplayErrors") =>
          NoKeyTwice(ParseReplayEventsFromPageText(lastRowsDom), "error")
    /\ (rowPolls > 0 /\ action = "getReplayNetworkErrors") =>
          NoKeyTwice(ParseReplayNetworkEventsFromPageText(lastRowsDom), "network")

C10_Witness ==
    /\ action = "getReplayErrors"
    /\ rows # None
    /\ Len(rows[1]) = 3
    /\ Len(lastParsed) = 7

HrefSegs == Href.segs

\* C11: the context of every pathname has page type issue with an issue id
\* and no replay id, page type replay with a replay id and no issue id, or
\* page type other with neither.
C11_ContextTypeMatchesIds ==
    served > 0 =>
        /\ ctx.pageType \in {"issue", "replay", "other"}
        /\ ctx.pageType = "issue" => ctx.issueId # Null /\ ctx.replayId = Null
        /\ ctx.pageType = "replay" => ctx.replayId # Null /\ ctx.issueId = Null
        /\ ctx.pageType = "other" => ctx.issueId = Null /\ ctx.replayId = Null

C11_Witness ==
    /\ served > 0
    /\ HrefSegs = <<"issues", "replays", "ac%6De">>
    /\ ctx.pageType = "issue"
    /\ ctx.issueId = "replays"

\* the value a pattern list of three gives a field: the first pattern, in
\* list order, that matches, percent-decoded
FirstOfThree(u, p1, p2, p3) ==
    IF MatchPattern(u, p1) # None THEN DecodeSafe(MatchPattern(u, p1)[1])
    ELSE IF MatchPattern(u, p2) # None THEN DecodeSafe(MatchPattern(u, p2)[1])
    ELSE IF MatchPattern(u, p3) # None THEN DecodeSafe(MatchPattern(u, p3)[1])
    ELSE Null

OrgOfPath(u) ==
    FirstOfThree(u, "org:/organizations/(x)/", "org:/(x)/issues/", "org:/(x)/replays/")

IssueOfPath(u) ==
    FirstOfThree(u, "id:/organizations/o/issues/(x)", "id:/issues/(x)", "id:/o/issues/(x)")

ReplayOfPath(u) ==
    FirstOfThree(u, "id:/organizations/o/replays/(x)", "id:/replays/(x)",
                 "id:/o/replays/(x)")

\* C12: a pathname /organizations/<org>/issues/<id>/ yields the decoded
\* <org>, the decoded <id> and page type issue (acme, 123, issue for
\* /organizations/acme/issues/123/); for each field the first pattern of
\* its list that matches decides, and the value is percent-decoded, or
\* kept as it is when it cannot be decoded.
C12_IssuePathContext ==
    served > 0 =>
        /\ (/\ Len(HrefSegs) >= 4
            /\ HrefSegs[1] = "organizations"
            /\ HrefSegs[3] = "issues") =>
              ctx = Ctx(DecodeSafe(HrefSegs[2]), DecodeSafe(HrefSegs[4]), Null, "issue")
        /\ Href = IssueUrl => ctx = Ctx("acme", "123", Null, "issue")
        /\ HrefSegs = <<"organizations", "ac%6De", "issues", "%zz">> =>
              ctx.organizationSlug = "acme" /\ ctx.issueId = "%zz"
        /\ (ctx.pageType # "other" /\ OrgOfPath(Href) # Null) =>
              ctx.organizationSlug = OrgOfPath(Href)
        /\ IssueOfPath(Href) # Null => ctx.issueId = IssueOfPath(Href)
        /\ (IssueOfPath(Href) = Null /\ ReplayOfPath(Href) # Null) =>
              ctx.replayId = ReplayOfPath(Href)

C12_Witness ==
    /\ served > 0
    /\ HrefSegs = <<"organizations", "ac%6De", "issues", "%zz">>
    /\ ctx.organizationSlug = "acme"
    /\ ctx.issueId = "%zz"

\* C13: the context an action is handed is the context of the page as it
\* is when the action is dispatched, whatever an earlier action was handed
\* and wherever the page has gone since.
C13_ContextFreshAtDispatch ==
    [][served' # served => ctx' = GetPageContext(Href', dom')]_vars

C13_Witness ==
    /\ served = 2
    /\ navs > 0
    /\ lastCtx.pageType = "issue"
    /\ ctx.pageType = "replay"
    /\ ctx.replayId = "r1"

\* ---------------------------------------------------------------- C14
\* C14: a message of type NIZO_ACTION that carries an action is answered
\* at most once, and exactly once when its handler has ended: with
\* {ok: true, data} when the handler completed, with {ok: false, error},
\* error a string, when it failed, an unknown action name included; a
\* message of another type or without an action is never answered and
\* starts no action.
C14_OneResponsePerAction ==
    /\ Len(response) <= 1
    /\ (pc = "done") = (Len(response) = 1)
    /\ Len(response) = 1 =>
          /\ msgType = "NIZO_ACTION" /\ request # Null
          /\ action = request
          /\ IF response[1].ok
             THEN response[1].error = Null
             ELSE response[1].error \in STRING \ {Null} /\ response[1].data = None
          /\ request \notin ReplayActions \cup IssueActions
                => response[1] = Failure("Unsupported action.")
    /\ (msgType # "NIZO_ACTION" \/ request = Null) =>
          /\ response = <<>>
          /\ action = "none" /\ served = 0 /\ calls = <<>>
          /\ pc \in {"idle", "ignored"}

\* an unknown action name was answered with a failure, and nothing else
C14_Witness ==
    /\ pc = "done" /\ msgType = "NIZO_ACTION" /\ request = "exportIssue"
    /\ response = <<Failure("Unsupported action.")>>
    /\ calls = <<>>

\* ---------------------------------------------------------------- C15
\* a precondition of the issue actions is missing from the context
MissingIssuePrecondition(c) ==
    c.pageType # "issue" \/ c.organizationSlug = Null \/ c.issueId = Null

\* C15 as stated: getUserDetails and getRawStacktracePrompt answer
\* {ok: false, error} without data whenever the page type is not issue, the
\* organization slug is unknown or the issue id is unknown, before any
\* remote query, and the stack-trace action also when the latest event has
\* no exception values.
C15_Original ==
    (action \in IssueActions /\ pc = "done") =>
        /\ MissingIssuePrecondition(ctx) =>
              /\ ~response[1].ok /\ response[1].data = None
              /\ calls = <<>>
        /\ (action = "getRawStacktracePrompt" /\ replies = <<"noException">>) =>
              ~response[1].ok /\ response[1].data = None

\* C15: getUserDetails always, and getRawStacktracePrompt when the page
\* text yields no stack trace, answer {ok: false, error} without data when
\* the page type is not issue, the organization slug is unknown or the
\* issue id is unknown, and no remote query is sent; getRawStacktracePrompt
\* off an issue page fails as well, but on an issue page whose text yields
\* a stack trace it answers {ok: true} from the page, without a query,
\* whether or not the organization is known; on its API path a latest
\* event without exception values is answered with {ok: false, error}.
C15_IssuePreconditions ==
    /\ (action \in IssueActions /\ calls # <<>>) => ~MissingIssuePrecondition(ctx)
    /\ (action \in IssueActions /\ pc = "done") =>
        /\ MissingIssuePrecondition(ctx) =>
              /\ calls = <<>>
              /\ IF action = "getRawStacktracePrompt" /\ ctx.pageType = "issue"
                    /\ stackDom
                 THEN response = <<Ok([source |-> "dom"])>>
                 ELSE ~response[1].ok /\ response[1].data = None
                      /\ response[1].error \in STRING \ {Null}
        /\ (action = "getRawStacktracePrompt" /\ replies = <<"noException">>) =>
              ~response[1].ok /\ response[1].data = None

\* the stack-trace action met an issue page of an unknown organization
\* whose text yields no stack trace, and failed without a query
C15_Witness ==
    /\ action = "getRawStacktracePrompt" /\ pc = "done"
    /\ ctx.pageType = "issue" /\ ctx.organizationSlug = Null /\ ~stackDom
    /\ ~response[1].ok
    /\ calls = <<>>

\* ---------------------------------------------------------------- C16
\* the enrichment calls of the two row actions
EnrichmentCalls == {"replayDetails", "events", "segments"}

\* the enrichment calls that were answered with a failure
FailedEnrichments ==
    {calls[i] : i \in {j \in 1..Len(replies) :
                         calls[j] \in EnrichmentCalls /\ replies[j] = "rejected"}}

\* C16: on a page whose context carries a replay id, getReplayErrors and
\* getReplayNetworkErrors answer {ok: true} whichever of the replay
\* details, replay events and recording segments calls fail: failed replay
\* details are null, failed events or segments are an empty list, and the
\* action goes on.
C16_EnrichmentFailuresDegrade ==
    (action \in {"getReplayErrors", "getReplayNetworkErrors"} /\ ctx.replayId # Null) =>
        /\ pc = "done" => response[1].ok
        /\ "replayDetails" \in FailedEnrichments => details = "null"
        /\ FailedEnrichments \cap {"events", "segments"} # {} =>
              pc = "done" /\ fromApi = <<>>

\* both enrichment calls getReplayErrors sent were answered with a
\* failure, and the action answered ok
C16_Witness ==
    /\ action = "getReplayErrors" /\ ctx.replayId # Null /\ pc = "done"
    /\ calls = <<"replayDetails", "events">>
    /\ replies = <<"rejected", "rejected">>
    /\ response[1].ok

\* ---------------------------------------------------------------- C18
\* C18 as stated: the call-to-action click, issued at most once, is the
\* only write of the engine to the page; tab selection does not click.
C18_Original ==
    /\ clicks <= 1
    /\ tabClicks = 0

\* the engine took the step (the host page's steps leave its state alone)
EngineStep ==
    <<ctlVars, resolveVars, rowVars, empties, sessionVars, replies>>'
        # <<ctlVars, resolveVars, rowVars, empties, sessionVars, replies>>

\* C18: during one action the engine writes to the page in three places
\* only: the call-to-action click of the dom-click stage, at most once and
\* only when a call-to-action element is rendered; a click on the tab
\* control by the tab selection of the two row actions, at most once and
\* only when the control is found and not active; and the history.back()
\* of the dom-click stage.  Every other engine step, the row extraction
\* and the link collection included, leaves the page as it is.
C18_EngineWrites ==
    [][ /\ clicks' # clicks =>
              /\ pc = "clickStage" /\ GetReplayCtaElements(dom) # <<>>
              /\ clicks = 0 /\ clicks' = 1
        /\ tabClicks' # tabClicks =>
              /\ pc = "ensureTab" /\ tab = "inactive"
              /\ action \in {"getReplayErrors", "getReplayNetworkErrors"}
              /\ tabClicks = 0 /\ tabClicks' = 1
        /\ EngineStep =>
              /\ dom' = dom /\ rowsDom' = rowsDom /\ tab' = tab
              /\ stackDom' = stackDom /\ hist' = hist
              /\ histIdx' # histIdx => backs' = backs + 1 /\ pc = "clickWait"
      ]_vars

\* the tab selection of getReplayErrors clicked the inactive tab control,
\* and the row extraction went on
C18_Witness ==
    /\ action = "getReplayErrors"
    /\ tab = "inactive" /\ tabClicks = 1 /\ clicks = 0
    /\ rowPolls > 0

\* ---------------------------------------------------------------- C17
\* C17: for one popup action the request is sent at most twice and the
\* engine is injected at most once; the injection comes only after the
\* first send failed, the second send only after the injection succeeded,
\* and a failed injection or a failed second send ends the action with
\* that failure shown, without a further attempt.
C17_SendInjectSendOnce ==
    /\ transport \in {<<>>, <<"send">>, <<"send", "inject">>,
                       <<"send", "inject", "send">>}
    /\ Len(answers) \in {Len(transport) - 1, Len(transport)}
    /\ Len(transport) >= 2 => answers[1] = "lastError"
    /\ Len(transport) = 3 => answers[2] = "ok"
    /\ (Len(answers) >= 2 /\ answers[Len(answers)] = "lastError") =>
          /\ popupPc = "ready" /\ ~loading
          /\ status = "Action failed."
          /\ shownError = IF Len(answers) = 2
                           THEN "Unable to inject Nizo script into this tab."
                           ELSE "Unable to message tab."

\* the first send failed, the engine was injected, and the second send
\* failed as well: the action ended with this failure
C17_Witness ==
    /\ transport = <<"send", "inject", "send">>
    /\ answers = <<"lastError", "ok", "lastError">>
    /\ popupPc = "ready" /\ status = "Action failed."

\* ---------------------------------------------------------------- C19
NoDuplicates(seq) == \A i, j \in 1..Len(seq) : seq[i] = seq[j] => i = j

\* C19: in one queryAllEverywhere call every document is recorded at most
\* once, the selector is run at most once in every document and every
\* shadow root, and every element is returned at most once, also when
\* frames share a document or form a cycle; and the call returns.
C19_VisitedOnceAndTerminates ==
    /\ [](NoDuplicates(docs) /\ NoDuplicates(queried) /\ NoDuplicates(elements))
    /\ <>(walkPc = "done")

\* the frames form a cycle through a document that two frames share, and
\* the call has returned
C19_Witness ==
    /\ walkPc = "done"
    /\ {<<"top", "frameA">>, <<"frameA", "top">>, <<"frameA", "frameA">>} \subseteq tree
    /\ docs = <<"top", "frameA">>
    /\ elements = <<Hit("top"), Hit("frameA")>>

\* ---------------------------------------------------------------- C20
\* the roots of the composite tree: the top document, the documents of the
\* frames and the shadow roots of the hosts in any root of the tree
RECURSIVE CompositeRoots(_, _)
CompositeRoots(t, reached) ==
    LET more == reached \cup {l[2] : l \in {k \in t : k[1] \in reached /\ k[2] \in Roots}}
    IN IF more = reached THEN reached ELSE CompositeRoots(t, more)

\* C20: queryAllEverywhere returns every matching element of the composite
\* tree: of the top document, of every accessible frame document and of
\* every shadow root reachable from it, a frame inside a shadow root and
\* the shadow roots inside that frame included.
C20_EveryMatchReturned ==
    walkPc = "done" =>
        {elements[i] : i \in 1..Len(elements)}
            = {Hit(r) : r \in CompositeRoots(tree, {"top"})}

\* ---------------------------------------------------------------- C21
\* C21: getRawStacktracePrompt on an issue page is DOM-first: when the
\* page text yields a stack trace the result has source "dom" and no
\* remote call is made, whether or not the organization is known; the
\* latest-event query is sent only when the page text yields none, and a
\* result then has source "api".
C21_StacktraceDomFirst ==
    (action = "getRawStacktracePrompt" /\ ctx.pageType = "issue") =>
        /\ stackDom => calls = <<>>
        /\ calls # <<>> => ~stackDom /\ calls = <<"latestEvent">>
        /\ (pc = "done" /\ stackDom) => response = <<Ok([source |-> "dom"])>>
        /\ (pc = "done" /\ ~stackDom /\ response[1].ok) =>
              /\ response[1].data.source = "api"
              /\ calls = <<"latestEvent">>

\* the page text of an issue page of a known organization yields a stack
\* trace: the action answered from the page, without a query
C21_Witness ==
    /\ action = "getRawStacktracePrompt" /\ pc = "done"
    /\ ctx.pageType = "issue" /\ ctx.organizationSlug # Null /\ stackDom
    /\ response = <<Ok([source |-> "dom"])>>
    /\ calls = <<>>

\* ---------------------------------------------------------------- C22
\* the pretty frames of the section, in the order of the text
PrettyOf(lines) == SelectSeq(lines, LAMBDA l : l.kind = "pretty")

\* the frame lines of a normalized stack trace
FramesOf(trace) == SelectSeq(trace, LAMBDA o : o.kind = "frame")

\* C22: for a section of pretty frames (without lines that are raw frames
\* already) the normalized stack trace lists the frames in the order of the
\* text, numbered #0, #1, ... without gaps, each as function (file:N) or,
\* with a module, function (package:module/file:N); the API path lists the
\* frames of the event in reverse order.
C22_FramesInEncounterOrder ==
    /\ (rawTrace # None /\ PrettyOf(section) # <<>>
          /\ \A i \in 1..Len(section) : section[i].kind # "raw") =>
        LET pretty == PrettyOf(section)
            frames == FramesOf(rawTrace[1])
        IN /\ Len(frames) = Len(pretty)
           /\ \A k \in 1..Len(pretty) :
                /\ frames[k].index = k - 1
                /\ frames[k].functionName = pretty[k].functionName
                /\ frames[k].location =
                      IF pretty[k].moduleName = Null
                      THEN <<pretty[k].file, ":", pretty[k].lineNo>>
                      ELSE <<"package:", pretty[k].moduleName, "/", pretty[k].file, ":",
                             pretty[k].lineNo>>
           /\ \A i \in 1..Len(rawTrace[1]) :
                rawTrace[1][i].kind = "frame" => \A j \in i..Len(rawTrace[1]) :
                                                    rawTrace[1][j].kind = "frame"
    /\ apiTrace # None =>
          /\ Len(apiTrace[1]) = Len(apiFrames)
          /\ \A k \in 1..Len(apiFrames) :
                apiTrace[1][k] = FormatFrame(apiFrames[Len(apiFrames) + 1 - k])

\* a header and two different pretty frames, the second with a module, were
\* normalized in the order of the text
C22_Witness ==
    /\ section = <<TextLine("text", "TypeError"),
                   PrettyLine("foo.js", "handleClick", "42", Null),
                   PrettyLine("bar.js", "onSubmit", "10", "FormModule")>>
    /\ rawTrace # None
    /\ FramesOf(rawTrace[1]) =
          <<OutFrame(0, "handleClick", <<"foo.js", ":", "42">>),
            OutFrame(1, "onSubmit", <<"package:", "FormModule", "/", "bar.js", ":", "10">>)>>

\* ---------------------------------------------------------------- C23
\* a is b with some elements left out
RECURSIVE IsSubList(_, _)
IsSubList(a, b) ==
    IF a = <<>> THEN TRUE
    ELSE IF b = <<>> THEN FALSE
    ELSE IF Head(a) = Head(b) THEN IsSubList(Tail(a), Tail(b))
    ELSE IsSubList(a, Tail(b))

\* C23: every extracted network row whose status is a number of 400 or
\* more is in networkErrors; networkErrors is a sub-list of the extracted
\* requests, and totalNetworkErrors never exceeds totalNetworkRequests.
C23_StatusErrorsClassified ==
    (action = "getReplayNetworkErrors" /\ pc = "done" /\ response[1].ok) =>
        LET data == response[1].data
            requests == IF rows = None THEN <<>>
                        ELSE IF rows[1] # <<>> THEN rows[1] ELSE fromApi
        IN /\ \A i \in 1..Len(requests) :
                (requests[i].status # None /\ requests[i].status[1] >= 400) =>
                    \E j \in 1..Len(data.networkErrors) :
                        data.networkErrors[j] = requests[i]
           /\ IsSubList(data.networkErrors, requests)
           /\ data.totalNetworkErrors = Len(data.networkErrors)
           /\ data.totalNetworkErrors <= data.totalNetworkRequests

\* a row of status 503 was extracted from the page and is reported as an
\* error, while the tab control counts more requests than were extracted
C23_Witness ==
    /\ action = "getReplayNetworkErrors" /\ pc = "done" /\ response[1].ok
    /\ rows # None
    /\ \E i \in 1..Len(rows[1]) : rows[1][i].status = Some(503)
    /\ response[1].data.totalNetworkErrors >= 1
    /\ response[1].data.totalNetworkErrors < response[1].data.totalNetworkRequests

\* ---------------------------------------------------------------- C24
\* C24: the tab selection clicks the tab control at most once per action:
\* exactly when the control is found and not active, and then it waits
\* once; with an active or absent control it neither clicks nor waits; and
\* the poll attempts that follow never click, also when the control stays
\* inactive.
C24_TabClickedAtMostOnce ==
    /\ [](tabClicks <= 1)
    /\ [](rowPolls > 0 => tabClicks = IF tab = "inactive" THEN 1 ELSE 0)
    /\ [][ /\ (pc = "ensureTab" /\ pc' # pc) =>
                IF tab = "inactive"
                THEN tabClicks' = tabClicks + 1 /\ pc' = "tabWait"
                ELSE tabClicks' = tabClicks /\ pc' = "rowPoll"
           /\ pc # "ensureTab" => tabClicks' = tabClicks
         ]_vars

\* the tab control stayed inactive through all twelve poll attempts, and
\* it was clicked once
C24_Witness ==
    /\ tab = "inactive" /\ tabClicks = 1
    /\ rowPolls = RowPollAttempts
    /\ pc = "done"

C26_AttemptsReadAnew ==
    [][domPolls' # domPolls =>
         /\ domPolls' = domPolls + 1 /\ domPolls' <= DomPollAttempts
         /\ IF ExtractReplayFromDom(dom) # None
            THEN /\ resolution' = ExtractReplayFromDom(dom)
                 /\ resolution'[1].source = "dom"
                 /\ pc' = "resolved"
                 /\ clicks' = 0
            ELSE /\ resolution' = None
                 /\ pc' \in {"domWait", "clickStage"}
      ]_vars

\* the host page rendered the replay link after seven empty attempts: the
\* eighth attempt returned it, and nothing was clicked
C26_Witness ==
    /\ domPolls = DomPollAttempts /\ empties.dom = DomPollAttempts - 1
    /\ resolution # None /\ resolution[1].source = "dom"
    /\ clicks = 0

\* ---------------------------------------------------------------- C27
\* the places of an action in the order the code passes them
StageOrder ==
    [idle |-> 0, issue |-> 1, eventWait |-> 2, resolve |-> 1, domWait |-> 2,
     clickStage |-> 3, clickWait |-> 4, api |-> 5, apiWait |-> 6,
     resolved |-> 7, detailsWait |-> 8, ensureTab |-> 9, rowPoll |-> 10,
     tabWait |-> 10, rowWait |-> 11, rowsDone |-> 12, eventsWait |-> 13,
     segmentsWait |-> 13, done |-> 14, ignored |-> 14]

\* the engine has a next step: a poll attempt is due (it then runs whatever
\* the page holds), or another step of its code, a timer or the answer to
\* a remote call is enabled
EngineCanStep ==
    \/ DomPollDue
    \/ ClickPollDue
    \/ RowPollDue
    \/ ENABLED (\/ Dispatch \/ IssueHandlerStart \/ LatestEventRespond
                \/ ResolveUrl \/ ClickCta \/ ApiStage \/ ApiRespond
                \/ OpenReplayDone \/ HandleReplayErrors
                \/ HandleReplayNetworkErrors \/ DetailsRespond
                \/ EnsureTabSelected \/ RowsExhausted \/ ErrorsAfterRows
                \/ EventsRespond \/ NetworkAfterRows \/ SegmentsRespond)

\* what is left of the action: the places still ahead, then the poll
\* attempts still allowed
Remaining ==
    (14 - StageOrder[pc]) * 32
        + (DomPollAttempts - domPolls) + (ClickPollAttempts - clickPolls)
        + (RowPollAttempts - rowPolls)

\* C27: every action invocation ends with a response when every remote
\* call it sends is answered: the poll attempts (at most 8 for links, 10
\* after a click, 12 for rows), the clicks and the remote calls of one
\* action are bounded; until the action has ended the engine has a next
\* step (its code, a timer or the answer to a call), every such step
\* brings the end nearer, and the end carries exactly one response.
C27_ActionTerminates ==
    /\ [](/\ domPolls <= DomPollAttempts
          /\ clickPolls <= ClickPollAttempts
          /\ rowPolls <= RowPollAttempts
          /\ clicks <= 1 /\ tabClicks <= 1 /\ backs <= 1
          /\ Len(calls) <= 3 /\ Len(replies) <= Len(calls))
    /\ [](pc \notin {"done", "ignored"} => EngineCanStep)
    /\ [][EngineStep => Remaining' < Remaining]_vars
    /\ [](pc = "done" => Len(response) = 1 /\ Len(replies) = Len(calls))
    /\ [](pc = "ignored" => response = <<>> /\ calls = <<>>)

\* all eight link polls and all ten polls after the click found nothing,
\* the remote query was answered, and the action ended with a response
C27_Witness ==
    /\ pc = "done" /\ Len(response) = 1
    /\ domPolls = DomPollAttempts /\ clicks = 1 /\ clickPolls = ClickPollAttempts
    /\ calls = <<"replays">> /\ Len(replies) = 1

\* ---------------------------------------------------------------- C28
\* requests of the popup (sends and injections) that are not answered yet
InFlight == Len(transport) - Len(answers)

\* C28: the action buttons of the popup are disabled exactly while an
\* action runs and are enabled again after every outcome (success, failed
\* precondition, transport failure, failed injection); an action starts
\* only with nothing in flight, so at most one request is in flight.
C28_ButtonsLockedWhileRunning ==
    /\ [](/\ loading = (popupPc # "ready")
          /\ InFlight \in {0, 1}
          /\ InFlight = 1 <=> popupPc \in {"sendWait", "injectWait"}
          /\ Len(SelectSeq(transport, LAMBDA t : t = "send")) <= 2)
    /\ [][popupRuns' # popupRuns =>
             /\ ~loading /\ InFlight = 0
             /\ loading' /\ transport' = <<>> /\ answers' = <<>>]_vars
    /\ [][(popupPc # "ready" /\ popupPc' = "ready") =>
             ~loading' /\ InFlight' = 0 /\ status' # "Working..."]_vars

\* the injection of the second action failed: the failure is shown and
\* the buttons are enabled once more
C28_Witness ==
    /\ popupRuns = 2
    /\ transport = <<"send", "inject">> /\ answers = <<"lastError", "lastError">>
    /\ shownError = "Unable to inject Nizo script into this tab."
    /\ popupPc = "ready" /\ ~loading

\* ---------------------------------------------------------------- C29
\* C29: during one action history.back() is called at most once, only in
\* the dom-click stage after the call-to-action click, and never while the
\* page URL equals the URL captured before the click or the history holds
\* one entry; an action that resolves the replay through url, dom or api
\* never calls it, and no other step of the engine moves in the history.
C29_BackAtMostOnce ==
    /\ [](backs <= 1)
    /\ [][backs' # backs =>
             /\ backs = 0 /\ backs' = 1
             /\ pc = "clickWait" /\ clicks = 1 /\ beforeUrl # None
             /\ Some(Href) # beforeUrl
             /\ Len(hist) > 1
             /\ pc' = "resolved" /\ resolution'[1].source = "dom-click"]_vars
    /\ [](Source \in {"url", "dom", "api"} => backs = 0)
    /\ [][(EngineStep /\ backs' = backs) =>
             hist' = hist /\ histIdx' = histIdx]_vars

\* the click led the page to a replay URL; the dom-click stage resolved the
\* replay from it and went back once
C29_Witness ==
    /\ pc = "done" /\ Source = "dom-click"
    /\ clicks = 1 /\ backs = 1
    /\ Some(Href) # beforeUrl

\* ---------------------------------------------------------------- C30
\* C30: each action request delivered to a tab is executed by exactly one
\* engine instance, also after the popup has injected the engine into a
\* page in which an engine listener was registered already: no delivered
\* request starts two runs of the same action.
C30_OneRunPerRequest == started <= 1

====
